---- MODULE Spec2Model ----
(***************************************************************************)
(* A state-machine model of the interpreter in src/src/rt.rs               *)
(* (Machine::call, Machine::execute and their helpers).                    *)
(*                                                                         *)
(* The Rust interpreter is recursive: `execute` calls itself for the body  *)
(* of a block or a loop and `call` calls `execute` for a function body.    *)
(* The model keeps the Rust activation records explicitly in `ctl` and     *)
(* executes one match arm of `execute`, or one result-handling match of    *)
(* the Block arm, the Loop arm or `call`, per step.                        *)
(*                                                                         *)
(* Widths are scaled: a byte has ByteBits bits (8 in the program), an i32  *)
(* is 4 bytes, an i64 and a usize are 8 bytes and a page has as many bytes  *)
(* as two bytes can count; the byte structure of every value is kept.      *)
(***************************************************************************)
EXTENDS Integers, Sequences, FiniteSets, TLC

\* ------------------------------------------------------------------ bounds
ByteBits == 1
MaxPages == 2
MaxInitStack == 2
MaxStack == 5
MaxInstantiations == 2

\* ------------------------------------------------------------- arithmetic
RECURSIVE Pow2(_)
Pow2(n) == IF n <= 0 THEN 1 ELSE 2 * Pow2(n - 1)

ByteMod == Pow2(ByteBits)            \* u8 has ByteMod values
I32Bits == 4 * ByteBits
I32Mod == Pow2(I32Bits)              \* u32 has I32Mod values
I64Bits == 8 * ByteBits
I64Mod == Pow2(I64Bits)
UsizeBits == 8 * ByteBits            \* 64-bit target: usize is 8 bytes
UsizeMod == Pow2(UsizeBits)
I32Min == 0 - (I32Mod \div 2)
I32Max == (I32Mod \div 2) - 1
U32Max == I32Mod - 1
WASM_PAGE_SIZE == Pow2(2 * ByteBits)

\* `x as u32` for an i32 x, and `x as i32` for a u32 x (reinterpretation).
AsU32(x) == x % I32Mod
AsI32(u) == IF (u % I32Mod) >= I32Mod \div 2 THEN (u % I32Mod) - I32Mod ELSE u % I32Mod
AsI64(u) == IF (u % I64Mod) >= I64Mod \div 2 THEN (u % I64Mod) - I64Mod ELSE u % I64Mod
\* `i as usize` for an i32 i: a sign-extending conversion on a 64-bit target.
I32AsUsize(i) == IF i >= 0 THEN i ELSE UsizeMod + i

\* ----------------------------------------------------------------- values
I32(v) == [t |-> "i32", v |-> v]
I64(v) == [t |-> "i64", v |-> v]
F32Zero == [t |-> "f32", v |-> 0]

\* -------------------------------------------------------------- sequences
Last(s) == s[Len(s)]
Front(s) == SubSeq(s, 1, Len(s) - 1)
LastN(s, n) == SubSeq(s, Len(s) - n + 1, Len(s))
Reverse(s) == [i \in 1..Len(s) |-> s[Len(s) + 1 - i]]
SeqsUpTo(S, n) == UNION {[1..k -> S] : k \in 0..n}

\* ------------------------------------------------------------------ build
\* Rust's arithmetic overflow checks depend on the build profile: a debug
\* build panics on overflow, a release build wraps. `build` is chosen in Init.
VARIABLE build

\* ------------------------------------------------------------------ Stack
\* Stack::pop: Err(StackEmpty) on an empty stack, else the last item removed.
pop(stack) ==
    IF stack = <<>>
    THEN [k |-> "err", err |-> "StackEmpty", stack |-> stack, val |-> I32(0)]
    ELSE [k |-> "ok", err |-> "", stack |-> Front(stack), val |-> Last(stack)]

\* A variant of peek that removes the item it returns, as pop does.
peek_as_pop(stack) ==
    IF stack = <<>>
    THEN [k |-> "err", err |-> "StackEmpty", stack |-> stack, val |-> I32(0)]
    ELSE [k |-> "ok", err |-> "", stack |-> Front(stack), val |-> Last(stack)]

\* Stack::peek: Err(StackEmpty) on an empty stack, else a copy of the last item.
peek(stack) ==
    IF stack = <<>>
    THEN [k |-> "err", err |-> "StackEmpty", stack |-> stack, val |-> I32(0)]
    ELSE [k |-> "ok", err |-> "", stack |-> stack, val |-> Last(stack)]

\* `let Val::I32(c) = stack.pop()? else { return Err(WrongValType) }`
pop_i32(stack) ==
    LET p == pop(stack) IN
    IF p.k = "ok" /\ p.val.t # "i32"
    THEN [k |-> "err", err |-> "WrongValType", stack |-> p.stack, val |-> p.val]
    ELSE p

\* `let Val::I64(c) = stack.pop()? else { return Err(WrongValType) }`
pop_i64(stack) ==
    LET p == pop(stack) IN
    IF p.k = "ok" /\ p.val.t # "i64"
    THEN [k |-> "err", err |-> "WrongValType", stack |-> p.stack, val |-> p.val]
    ELSE p

\* --------------------------------------------------------- i32 operations
\* The result of an i32 operation: a value, or a panic (overflow, debug build).
OkV(v) == [k |-> "ok", v |-> v]
PanicV == [k |-> "panic", v |-> 0]

\* Bits of a u32, least significant first, and back.
Bits(u) == [i \in 1..I32Bits |-> (u \div Pow2(i - 1)) % 2]
RECURSIVE FromBits(_)
FromBits(b) == IF b = <<>> THEN 0 ELSE Head(b) + 2 * FromBits(Tail(b))

\* ops::Add::add on i32: overflow panics in a debug build and wraps otherwise.
i32add(a, b) ==
    IF a + b > I32Max \/ a + b < I32Min
    THEN (IF build = "debug" THEN PanicV ELSE OkV(AsI32(AsU32(a + b))))
    ELSE OkV(a + b)

\* ops::Sub::sub on i32.
i32sub(a, b) ==
    IF a - b > I32Max \/ a - b < I32Min
    THEN (IF build = "debug" THEN PanicV ELSE OkV(AsI32(AsU32(a - b))))
    ELSE OkV(a - b)

i32gt_u(a, b) == OkV(IF AsU32(a) > AsU32(b) THEN 1 ELSE 0)
i32lt_u(a, b) == OkV(IF AsU32(a) < AsU32(b) THEN 1 ELSE 0)
i32ge_u(a, b) == OkV(IF AsU32(a) >= AsU32(b) THEN 1 ELSE 0)
i32le_u(a, b) == OkV(IF AsU32(a) <= AsU32(b) THEN 1 ELSE 0)

i32and(a, b) ==
    OkV(AsI32(FromBits([i \in 1..I32Bits |-> Bits(AsU32(a))[i] * Bits(AsU32(b))[i]])))
i32or(a, b) ==
    OkV(AsI32(FromBits([i \in 1..I32Bits |->
        IF Bits(AsU32(a))[i] + Bits(AsU32(b))[i] > 0 THEN 1 ELSE 0])))
i32xor(a, b) ==
    OkV(AsI32(FromBits([i \in 1..I32Bits |->
        (Bits(AsU32(a))[i] + Bits(AsU32(b))[i]) % 2])))

\* i32shr_u: `a as u32 >> b as u32`; a count of 32 or more panics in a debug
\* build and is masked to its low bits otherwise.
i32shr_u(a, b) ==
    IF AsU32(b) >= I32Bits /\ build = "debug"
    THEN PanicV
    ELSE OkV(AsI32(AsU32(a) \div Pow2(AsU32(b) % I32Bits)))

\* ops::Shl::shl on (i32, i32): a negative count or one of 32 or more panics
\* in a debug build and is masked otherwise.
i32shl(a, b) ==
    IF (b < 0 \/ b >= I32Bits) /\ build = "debug"
    THEN PanicV
    ELSE OkV(AsI32((AsU32(a) * Pow2(AsU32(b) % I32Bits)) % I32Mod))

\* a.rotate_left(b as u32): never panics, rotates by the count modulo 32.
i32rotl(a, b) ==
    LET r == AsU32(b) % I32Bits
        u == AsU32(a)
    IN OkV(AsI32(((u * Pow2(r)) % I32Mod) + (u \div Pow2(I32Bits - r))))

i32eq(a, b) == OkV(IF a = b THEN 1 ELSE 0)
i32eqz(b) == OkV(IF b = 0 THEN 1 ELSE 0)

\* The closure handed to binop_i32 by each arm of Machine::execute.
i32op(op, a, b) ==
    CASE op = "I32Add" -> i32add(a, b)
      [] op = "I32Sub" -> i32sub(a, b)
      [] op = "I32GtU" -> i32gt_u(a, b)
      [] op = "I32LtU" -> i32lt_u(a, b)
      [] op = "I32GeU" -> i32ge_u(a, b)
      [] op = "I32LeU" -> i32le_u(a, b)
      [] op = "I32And" -> i32and(a, b)
      [] op = "I32ShrU" -> i32shr_u(a, b)
      [] op = "I32Shl" -> i32shl(a, b)
      [] op = "I32Or" -> i32or(a, b)
      [] op = "I32Xor" -> i32xor(a, b)
      [] op = "I32Rotl" -> i32rotl(a, b)
      [] op = "I32Eq" -> i32eq(a, b)
BinOps == {"I32Add", "I32Sub", "I32GtU", "I32LtU", "I32GeU", "I32LeU", "I32And",
           "I32ShrU", "I32Shl", "I32Or", "I32Xor", "I32Rotl", "I32Eq"}

\* binop_i32: pops c2 then c1, pushes op(c1, c2).
binop_i32(stack, op) ==
    LET p2 == pop_i32(stack) IN
    IF p2.k # "ok" THEN [k |-> p2.k, err |-> p2.err, stack |-> p2.stack] ELSE
    LET p1 == pop_i32(p2.stack) IN
    IF p1.k # "ok" THEN [k |-> p1.k, err |-> p1.err, stack |-> p1.stack] ELSE
    LET res == i32op(op, p1.val.v, p2.val.v) IN
    IF res.k = "panic" THEN [k |-> "panic", err |-> "overflow", stack |-> p1.stack]
    ELSE [k |-> "ok", err |-> "", stack |-> Append(p1.stack, I32(res.v))]

\* unop_i32 with the closure of the I32Eqz arm: pops val, pushes op(val).
unop_i32(stack) ==
    LET p == pop_i32(stack) IN
    IF p.k # "ok" THEN [k |-> p.k, err |-> p.err, stack |-> p.stack] ELSE
    [k |-> "ok", err |-> "", stack |-> Append(p.stack, I32(i32eqz(p.val.v).v))]

\* ----------------------------------------------------------------- memory
\* usize addition: overflow panics in a debug build and wraps otherwise.
usize_add(a, b) ==
    IF a + b >= UsizeMod
    THEN (IF build = "debug" THEN PanicV ELSE OkV((a + b) % UsizeMod))
    ELSE OkV(a + b)

\* `1 << (memarg.align - 1)` on usize with a u32 count: a count of 64 or more
\* panics in a debug build and is masked otherwise.
usize_shl1(count) ==
    IF count >= UsizeBits /\ build = "debug"
    THEN PanicV
    ELSE OkV(Pow2(count % UsizeBits))

\* effective_address: pops the i32 base, adds memarg.offset in usize and
\* checks the alignment when memarg.align is not 0.
effective_address(stack, align, offset) ==
    LET p == pop_i32(stack) IN
    IF p.k # "ok" THEN [k |-> p.k, err |-> p.err, stack |-> p.stack, ea |-> 0] ELSE
    LET sum == usize_add(I32AsUsize(p.val.v), offset) IN
    IF sum.k = "panic" THEN [k |-> "panic", err |-> "overflow", stack |-> p.stack, ea |-> 0] ELSE
    IF align = 0 THEN [k |-> "ok", err |-> "", stack |-> p.stack, ea |-> sum.v] ELSE
    LET sh == usize_shl1(align - 1) IN
    IF sh.k = "panic" THEN [k |-> "panic", err |-> "overflow", stack |-> p.stack, ea |-> sum.v] ELSE
    IF sum.v % sh.v # 0
    THEN [k |-> "err", err |-> "InvalidAlignment", stack |-> p.stack, ea |-> sum.v]
    ELSE [k |-> "ok", err |-> "", stack |-> p.stack, ea |-> sum.v]

\* `if ea + N/8 > mem.len() { return Err(OobAccess { .. }) }`; n is N/8.
oob_check(ea, n, len) ==
    LET end == usize_add(ea, n) IN
    IF end.k = "panic" THEN [k |-> "panic", err |-> "overflow"] ELSE
    IF end.v > len THEN [k |-> "err", err |-> "OobAccess"] ELSE
    [k |-> "ok", err |-> ""]

\* A variant of the slice's range check that checks nothing, as an unchecked
\* slice (`get_unchecked`) would.
slice_range_unchecked(ea, n, len) ==
    [k |-> "ok", err |-> ""]

\* The range check of the slice `mem.data[ea..ea+N/8]`: it panics when the
\* start exceeds the end or the end exceeds the length.
slice_range(ea, n, len) ==
    LET end == usize_add(ea, n) IN
    IF end.k = "panic" THEN [k |-> "panic", err |-> "overflow"] ELSE
    IF ea > end.v \/ end.v > len THEN [k |-> "panic", err |-> "slice index"] ELSE
    [k |-> "ok", err |-> ""]

\* The check and the slice of one arm, in the order of the code.
bounds_check(ea, n, len) ==
    IF oob_check(ea, n, len).k # "ok" THEN oob_check(ea, n, len) ELSE slice_range(ea, n, len)

\* A variant of to_le_bytes that puts the most significant byte first.
to_be_bytes(c, n) == [i \in 1..n |-> ((c % Pow2(n * ByteBits)) \div Pow2((n - i) * ByteBits)) % ByteMod]

\* to_le_bytes of an n-byte integer and from_le_bytes of n bytes (unsigned).
to_le_bytes(c, n) == [i \in 1..n |-> ((c % Pow2(n * ByteBits)) \div Pow2((i - 1) * ByteBits)) % ByteMod]
RECURSIVE from_le_bytes(_)
from_le_bytes(bytes) ==
    IF bytes = <<>> THEN 0 ELSE Head(bytes) + ByteMod * from_le_bytes(Tail(bytes))

\* `&mem.data[ea..ea+n]` and `mem.data[ea..ea+n].copy_from_slice(&bytes)`.
read_slice(data, ea, n) == [i \in 1..n |-> IF ea + i <= Len(data) THEN data[ea + i] ELSE 0]
write_slice(data, ea, bytes) ==
    [i \in 1..Len(data) |->
        IF i > ea /\ i <= ea + Len(bytes) THEN bytes[i - ea] ELSE data[i]]

\* The load arms (I32Load, I32Load8U, I64Load): n is N/8, t the kind pushed.
load(stack, mems, align, offset, n, t) ==
    IF mems = <<>>
    THEN [k |-> "panic", err |-> "index", stack |-> stack, ea |-> 0, at |-> {}] ELSE
    LET a == effective_address(stack, align, offset) IN
    IF a.k # "ok" THEN [k |-> a.k, err |-> a.err, stack |-> a.stack, ea |-> a.ea, at |-> {}] ELSE
    LET b == bounds_check(a.ea, n, Len(mems[1])) IN
    IF b.k # "ok" THEN [k |-> b.k, err |-> b.err, stack |-> a.stack, ea |-> a.ea, at |-> {}] ELSE
    LET u == from_le_bytes(read_slice(mems[1], a.ea, n))
        val == IF t = "i64" THEN I64(AsI64(u)) ELSE I32(AsI32(u))
    IN [k |-> "ok", err |-> "", stack |-> Append(a.stack, val), ea |-> a.ea,
        at |-> a.ea .. (a.ea + n - 1)]

\* The store arms (I32Store, I32Store8, I64Store): pops the value, then the base.
store(stack, mems, align, offset, n, t) ==
    IF mems = <<>>
    THEN [k |-> "panic", err |-> "index", stack |-> stack, mems |-> mems, ea |-> 0, at |-> {}] ELSE
    LET c == IF t = "i64" THEN pop_i64(stack) ELSE pop_i32(stack) IN
    IF c.k # "ok"
    THEN [k |-> c.k, err |-> c.err, stack |-> c.stack, mems |-> mems, ea |-> 0, at |-> {}] ELSE
    LET a == effective_address(c.stack, align, offset) IN
    IF a.k # "ok"
    THEN [k |-> a.k, err |-> a.err, stack |-> a.stack, mems |-> mems, ea |-> a.ea, at |-> {}] ELSE
    LET b == bounds_check(a.ea, n, Len(mems[1])) IN
    IF b.k # "ok"
    THEN [k |-> b.k, err |-> b.err, stack |-> a.stack, mems |-> mems, ea |-> a.ea, at |-> {}] ELSE
    [k |-> "ok", err |-> "", stack |-> a.stack,
     mems |-> [mems EXCEPT ![1] = write_slice(mems[1], a.ea, to_le_bytes(c.val.v, n))],
     ea |-> a.ea, at |-> a.ea .. (a.ea + n - 1)]

\* ------------------------------------------------------------------ calls
\* default_value: the zero of a declared local's kind; todo!() for the rest.
default_value(t) ==
    CASE t = "i32" -> [k |-> "ok", val |-> I32(0)]
      [] t = "i64" -> [k |-> "ok", val |-> I64(0)]
      [] t = "f32" -> [k |-> "ok", val |-> F32Zero]
      [] OTHER -> [k |-> "panic", val |-> I32(0)]

\* The declared locals, n copies of the default value per declaration.
RECURSIVE extra_locals(_)
extra_locals(decls) ==
    IF decls = <<>> THEN <<>>
    ELSE [i \in 1..Head(decls).n |-> default_value(Head(decls).t).val]
         \o extra_locals(Tail(decls))

\* get_locals: pops one value per parameter, reverses them and appends the
\* declared locals.
get_locals(stack, from, locals) ==
    IF Len(stack) < Len(from)
    THEN [k |-> "err", err |-> "StackEmpty", stack |-> <<>>, locals |-> <<>>] ELSE
    IF \E i \in 1..Len(locals) : locals[i].n > 0 /\ default_value(locals[i].t).k = "panic"
    THEN [k |-> "panic", err |-> "todo", stack |-> SubSeq(stack, 1, Len(stack) - Len(from)),
          locals |-> <<>>] ELSE
    [k |-> "ok", err |-> "",
     stack |-> SubSeq(stack, 1, Len(stack) - Len(from)),
     locals |-> Reverse(Reverse(LastN(stack, Len(from)))) \o extra_locals(locals)]

\* ----------------------------------------------------------- instructions
\* repr::Inst. `a` is the immediate (label, function or local index, constant
\* or memarg.offset), `al` is memarg.align, `body` the nested sequence of a
\* Block or a Loop. `bt` is the number of results of the block type that
\* parse_instr reads and drops: Inst::Block and Inst::Loop do not keep it.
Ins(op, a) == [op |-> op, a |-> a, al |-> 0, bt |-> 0, body |-> <<>>]
Blk(op, bt, body) == [op |-> op, a |-> 0, al |-> 0, bt |-> bt, body |-> body]
MemIns(op, al, off) == [op |-> op, a |-> off, al |-> al, bt |-> 0, body |-> <<>>]

\* instance::FuncInst: a local function (type, declared locals, body) or an
\* external one.
LocalFunc(from, to, locals, body) ==
    [kind |-> "local", from |-> from, to |-> to, locals |-> locals, body |-> body]
ExternalFunc(from, to) ==
    [kind |-> "external", from |-> from, to |-> to, locals |-> <<>>, body |-> <<>>]

\* ------------------------------------------------------------------ state
VARIABLES
    funcs,      \* Store.funcs, with func_addrs the identity
    mems,       \* Store.mems: the data of each memory
    stack,      \* Machine.stack.items
    lstack,     \* the Locals of the active calls, innermost last
    ctl,        \* the active invocations of execute, innermost last
    ret,        \* the Result the innermost invocation has just returned
    outcome,    \* what the embedder's Machine::call came to
    ev,         \* observation: what the last step did
    tables,     \* Store.tables
    inst,       \* the activation of instance::instantiate, and what it did
    stream,     \* parser::Parser.stream: the bytes not yet read
    input,      \* text::token::Lexer.input: the text not yet lexed
    tokens,     \* the tokens a tree builder or the text parser has not yet taken
    frames,     \* the active invocations of tokens_to_sexpr, innermost last
    result      \* what the last decoding, lexing or parsing function returned

vars ==
    <<build, funcs, mems, tables, stack, lstack, ctl, ret, outcome, ev, inst,
      stream, input, tokens, frames, result>>

\* Before any decoding, lexing or parsing function has been applied.
NoResult == [fn |-> "none", k |-> "none", v |-> <<>>, err |-> "", arg |-> <<>>, rest |-> <<>>]

\* One invocation of execute: the instructions and the position of the `for`.
\* `via` says who invoked it (the Block arm, the Loop arm, or call); `entry`
\* and `arity` observe the operand stack at the time the label was entered
\* and the arity of the label.
Frame(code, via, entry, arity) ==
    [code |-> code, pc |-> 1, via |-> via, entry |-> entry, arity |-> arity]
NoFrame == Frame(<<>>, "", <<>>, 0)

\* Result<(), Exception>; `stk` and `loc` observe the operand stack and the
\* locals at the instruction that raised it.
NoRet == [tag |-> "none", n |-> 0, err |-> "", stk |-> <<>>, loc |-> <<>>]
RetOk == [NoRet EXCEPT !.tag = "Ok"]
RetErr(e) == [NoRet EXCEPT !.tag = "Runtime", !.err = e]
RetBreak(n, stk) ==
    [NoRet EXCEPT !.tag = "Break", !.n = n, !.stk = stk, !.loc = Last(lstack)]
RetReturn == [NoRet EXCEPT !.tag = "Return", !.stk = stack, !.loc = Last(lstack)]

Idle == [tag |-> "idle", err |-> ""]
RunningO == [tag |-> "running", err |-> ""]
Panic(msg) == [tag |-> "panic", err |-> msg]
DoneOk == [tag |-> "Ok", err |-> ""]
DoneErr(e) == [tag |-> "Err", err |-> e]

NoMem == [typed |-> FALSE, base |-> 0, offset |-> 0, align |-> 0, n |-> 0, len |-> 0,
          ea |-> 0, at |-> {}, before |-> <<>>, err |-> ""]
Ev0 == [kind |-> "init", op |-> "", res |-> "", tag |-> "", n |-> 0, err |-> "", pre |-> <<>>,
        depth |-> 0, frame |-> NoFrame, parent |-> NoFrame, locals |-> <<>>,
        rstk |-> <<>>, rloc |-> <<>>, mu |-> NoMem]

Top == ctl[Len(ctl)]
Cur == Top.code[Top.pc]
AtInst ==
    /\ outcome.tag = "running"
    /\ ret.tag = "none"
    /\ ctl # <<>>
    /\ Top.pc <= Len(Top.code)
Advance == [ctl EXCEPT ![Len(ctl)].pc = @ + 1]
EvExec(res) ==
    [Ev0 EXCEPT !.kind = "exec", !.op = Cur.op, !.res = res, !.pre = stack,
                !.depth = Len(ctl), !.frame = Top, !.locals = Last(lstack)]

\* What every arm does with the outcome r of its helper: on Ok the `for` goes
\* on, on Err execute returns it, on a panic the process ends.
Finish(r) ==
    /\ Len(r.stack) <= MaxStack
    /\ stack' = r.stack
    /\ ctl' = IF r.k = "ok" THEN Advance ELSE ctl
    /\ ret' = IF r.k = "err" THEN RetErr(r.err) ELSE ret
    /\ outcome' = IF r.k = "panic" THEN Panic(r.err) ELSE outcome

\* ---------------------------------------------------- Machine::call, entry
\* What `call` does before it runs the body: the function is looked up, an
\* external function is todo!(), a local one gets its locals from the stack.
call_enter(func_addr) ==
    IF func_addr + 1 > Len(funcs)
    THEN [k |-> "panic", err |-> "index", stack |-> stack, locals |-> <<>>] ELSE
    IF funcs[func_addr + 1].kind = "external"
    THEN [k |-> "panic", err |-> "todo", stack |-> stack, locals |-> <<>>] ELSE
    get_locals(stack, funcs[func_addr + 1].from, funcs[func_addr + 1].locals)

CallFrame(func_addr, entry) ==
    Frame(funcs[func_addr + 1].body, "call", entry, Len(funcs[func_addr + 1].to))

\* The embedder calls Machine::call(FuncAddr(0)) with the operands on the stack.
Machine_call ==
    /\ outcome.tag = "idle"
    /\ LET g == call_enter(0) IN
       /\ stack' = g.stack
       /\ lstack' = IF g.k = "ok" THEN <<g.locals>> ELSE lstack
       /\ ctl' = IF g.k = "ok" THEN <<CallFrame(0, g.stack)>> ELSE ctl
       /\ outcome' = CASE g.k = "ok" -> RunningO
                       [] g.k = "err" -> DoneErr(g.err)
                       [] OTHER -> Panic(g.err)
       /\ ev' = [Ev0 EXCEPT !.kind = "call", !.res = g.k, !.pre = stack]
    /\ UNCHANGED <<build, stream, input, tokens, frames, result, tables, inst, funcs, mems, ret>>

\* ------------------------------------------- Machine::execute, arm by arm
\* Inst::Unreachable => panic!("reached unreachable")
Inst_Unreachable ==
    /\ AtInst /\ Cur.op = "Unreachable"
    /\ outcome' = Panic("reached unreachable")
    /\ ev' = EvExec("panic")
    /\ UNCHANGED <<build, stream, input, tokens, frames, result, tables, inst, funcs, mems, stack, lstack, ctl, ret>>

\* The arms that are todo!(): Nop, IfElse, CallIndirect, F32Add and every
\* instruction execute has no arm for (`x => todo!("{:?}", x)`).
TodoOps == {"Nop", "IfElse", "CallIndirect", "F32Add", "I32Mul", "I32Load16U",
            "MemorySize", "BreakTable"}
Inst_todo ==
    /\ AtInst /\ Cur.op \in TodoOps
    /\ outcome' = Panic("not yet implemented")
    /\ ev' = EvExec("panic")
    /\ UNCHANGED <<build, stream, input, tokens, frames, result, tables, inst, funcs, mems, stack, lstack, ctl, ret>>

\* Inst::Block(instructions): execute is invoked on the body.
Inst_Block ==
    /\ AtInst /\ Cur.op = "Block"
    /\ ctl' = Append(ctl, Frame(Cur.body, "block", stack, Cur.bt))
    /\ ev' = EvExec("ok")
    /\ UNCHANGED <<build, stream, input, tokens, frames, result, tables, inst, funcs, mems, stack, lstack, ret, outcome>>

\* Inst::Loop(instructions): the first iteration of `loop { execute(body) }`.
Inst_Loop ==
    /\ AtInst /\ Cur.op = "Loop"
    /\ ctl' = Append(ctl, Frame(Cur.body, "loop", stack, 0))
    /\ ev' = EvExec("ok")
    /\ UNCHANGED <<build, stream, input, tokens, frames, result, tables, inst, funcs, mems, stack, lstack, ret, outcome>>

\* Inst::Break(b) => return Err(Exception::Break(b.0))
Inst_Break ==
    /\ AtInst /\ Cur.op = "Break"
    /\ ret' = RetBreak(Cur.a, stack)
    /\ ev' = EvExec("break")
    /\ UNCHANGED <<build, stream, input, tokens, frames, result, tables, inst, funcs, mems, stack, lstack, ctl, outcome>>

\* Inst::BreakIf(b): pops the condition; breaks when it is not 0.
Inst_BreakIf ==
    /\ AtInst /\ Cur.op = "BreakIf"
    /\ LET p == pop_i32(stack) IN
       /\ stack' = p.stack
       /\ ret' = CASE p.k = "err" -> RetErr(p.err)
                   [] p.k = "ok" /\ p.val.v # 0 -> RetBreak(Cur.a, p.stack)
                   [] OTHER -> ret
       /\ ctl' = IF p.k = "ok" /\ p.val.v = 0 THEN Advance ELSE ctl
       /\ ev' = EvExec(CASE p.k = "err" -> "err"
                         [] p.k = "ok" /\ p.val.v # 0 -> "break"
                         [] OTHER -> "ok")
    /\ UNCHANGED <<build, stream, input, tokens, frames, result, tables, inst, funcs, mems, lstack, outcome>>

\* Inst::Return => return Err(Exception::Return)
Inst_Return ==
    /\ AtInst /\ Cur.op = "Return"
    /\ ret' = RetReturn
    /\ ev' = EvExec("return")
    /\ UNCHANGED <<build, stream, input, tokens, frames, result, tables, inst, funcs, mems, stack, lstack, ctl, outcome>>

\* Inst::Call(func): `self.call(func_addr)?` up to the invocation of execute
\* on the callee's body.
Inst_Call ==
    /\ AtInst /\ Cur.op = "Call"
    /\ LET g == call_enter(Cur.a) IN
       /\ stack' = g.stack
       /\ lstack' = IF g.k = "ok" THEN Append(lstack, g.locals) ELSE lstack
       /\ ctl' = IF g.k = "ok" THEN Append(ctl, CallFrame(Cur.a, g.stack)) ELSE ctl
       /\ ret' = IF g.k = "err" THEN RetErr(g.err) ELSE ret
       /\ outcome' = IF g.k = "panic" THEN Panic(g.err) ELSE outcome
       /\ ev' = EvExec(g.k)
    /\ UNCHANGED <<build, stream, input, tokens, frames, result, tables, inst, funcs, mems>>

\* Inst::Select: pops c, val2, val1; pushes val1 when c is not 0, else val2.
select(stk) ==
    LET c == pop_i32(stk) IN
    IF c.k # "ok" THEN [k |-> c.k, err |-> c.err, stack |-> c.stack] ELSE
    LET v2 == pop(c.stack) IN
    IF v2.k # "ok" THEN [k |-> v2.k, err |-> v2.err, stack |-> v2.stack] ELSE
    LET v1 == pop(v2.stack) IN
    IF v1.k # "ok" THEN [k |-> v1.k, err |-> v1.err, stack |-> v1.stack] ELSE
    [k |-> "ok", err |-> "",
     stack |-> Append(v1.stack, IF c.val.v # 0 THEN v1.val ELSE v2.val)]

Inst_Select ==
    /\ AtInst /\ Cur.op = "Select"
    /\ Finish(select(stack))
    /\ ev' = EvExec(select(stack).k)
    /\ UNCHANGED <<build, stream, input, tokens, frames, result, tables, inst, funcs, mems, lstack>>

\* Inst::LocalGet(idx): `locals[*idx]` panics when idx is out of range.
Inst_LocalGet ==
    /\ AtInst /\ Cur.op = "LocalGet"
    /\ LET r == IF Cur.a + 1 > Len(Last(lstack))
                THEN [k |-> "panic", err |-> "index", stack |-> stack]
                ELSE [k |-> "ok", err |-> "", stack |-> Append(stack, Last(lstack)[Cur.a + 1])]
       IN Finish(r) /\ ev' = EvExec(r.k)
    /\ UNCHANGED <<build, stream, input, tokens, frames, result, tables, inst, funcs, mems, lstack>>

\* LocalSet pops the value, LocalTee peeks it; both then assign locals[idx].
set_local(p, idx) ==
    IF p.k # "ok" THEN [k |-> p.k, err |-> p.err, stack |-> p.stack, locals |-> Last(lstack)] ELSE
    IF idx + 1 > Len(Last(lstack))
    THEN [k |-> "panic", err |-> "index", stack |-> p.stack, locals |-> Last(lstack)]
    ELSE [k |-> "ok", err |-> "", stack |-> p.stack,
          locals |-> [Last(lstack) EXCEPT ![idx + 1] = p.val]]

Inst_LocalSet ==
    /\ AtInst /\ Cur.op = "LocalSet"
    /\ LET r == set_local(pop(stack), Cur.a) IN
       /\ Finish(r)
       /\ lstack' = [lstack EXCEPT ![Len(lstack)] = r.locals]
       /\ ev' = EvExec(r.k)
    /\ UNCHANGED <<build, stream, input, tokens, frames, result, tables, inst, funcs, mems>>

Inst_LocalTee ==
    /\ AtInst /\ Cur.op = "LocalTee"
    /\ LET r == set_local(peek(stack), Cur.a) IN
       /\ Finish(r)
       /\ lstack' = [lstack EXCEPT ![Len(lstack)] = r.locals]
       /\ ev' = EvExec(r.k)
    /\ UNCHANGED <<build, stream, input, tokens, frames, result, tables, inst, funcs, mems>>

\* The thirteen arms that call binop_i32 with an i32 operation.
Inst_I32Binop ==
    /\ AtInst /\ Cur.op \in BinOps
    /\ Finish(binop_i32(stack, Cur.op))
    /\ ev' = EvExec(binop_i32(stack, Cur.op).k)
    /\ UNCHANGED <<build, stream, input, tokens, frames, result, tables, inst, funcs, mems, lstack>>

Inst_I32Eqz ==
    /\ AtInst /\ Cur.op = "I32Eqz"
    /\ Finish(unop_i32(stack))
    /\ ev' = EvExec(unop_i32(stack).k)
    /\ UNCHANGED <<build, stream, input, tokens, frames, result, tables, inst, funcs, mems, lstack>>

Inst_I32Const ==
    /\ AtInst /\ Cur.op = "I32Const"
    /\ Finish([k |-> "ok", err |-> "", stack |-> Append(stack, I32(Cur.a))])
    /\ ev' = EvExec("ok")
    /\ UNCHANGED <<build, stream, input, tokens, frames, result, tables, inst, funcs, mems, lstack>>

Inst_I64Const ==
    /\ AtInst /\ Cur.op = "I64Const"
    /\ Finish([k |-> "ok", err |-> "", stack |-> Append(stack, I64(Cur.a))])
    /\ ev' = EvExec("ok")
    /\ UNCHANGED <<build, stream, input, tokens, frames, result, tables, inst, funcs, mems, lstack>>

Inst_Drop ==
    /\ AtInst /\ Cur.op = "Drop"
    /\ Finish(pop(stack))
    /\ ev' = EvExec(pop(stack).k)
    /\ UNCHANGED <<build, stream, input, tokens, frames, result, tables, inst, funcs, mems, lstack>>

\* What a load or store arm did: whether a memory and well-typed operands
\* were there, the i32 base that was popped, the memarg, the width in bytes,
\* the memory's length, the address that effective_address returned, the byte
\* indices the arm read or wrote, and the memories before the step.
EvMem(r, n, typed, base) ==
    [EvExec(r.k) EXCEPT !.mu =
        [typed |-> typed, base |-> base, offset |-> Cur.a, align |-> Cur.al, n |-> n,
         len |-> IF mems = <<>> THEN 0 ELSE Len(mems[1]),
         ea |-> r.ea, at |-> r.at, before |-> mems, err |-> r.err]]

LoadTyped == mems # <<>> /\ Len(stack) >= 1 /\ Last(stack).t = "i32"
StoreTyped(t) ==
    /\ mems # <<>>
    /\ Len(stack) >= 2
    /\ Last(stack).t = t
    /\ stack[Len(stack) - 1].t = "i32"

LoadArm(n, t) ==
    /\ Finish(load(stack, mems, Cur.al, Cur.a, n, t))
    /\ ev' = EvMem(load(stack, mems, Cur.al, Cur.a, n, t), n, LoadTyped,
                   IF LoadTyped THEN Last(stack).v ELSE 0)
    /\ UNCHANGED <<build, stream, input, tokens, frames, result, tables, inst, funcs, mems, lstack>>

StoreArm(n, t) ==
    /\ Finish(store(stack, mems, Cur.al, Cur.a, n, t))
    /\ mems' = store(stack, mems, Cur.al, Cur.a, n, t).mems
    /\ ev' = EvMem(store(stack, mems, Cur.al, Cur.a, n, t), n, StoreTyped(t),
                   IF StoreTyped(t) THEN stack[Len(stack) - 1].v ELSE 0)
    /\ UNCHANGED <<build, stream, input, tokens, frames, result, tables, inst, funcs, lstack>>

Inst_I32Load == AtInst /\ Cur.op = "I32Load" /\ LoadArm(4, "i32")
Inst_I32Load8U == AtInst /\ Cur.op = "I32Load8U" /\ LoadArm(1, "i32")
Inst_I64Load == AtInst /\ Cur.op = "I64Load" /\ LoadArm(8, "i64")
Inst_I32Store == AtInst /\ Cur.op = "I32Store" /\ StoreArm(4, "i32")
Inst_I32Store8 == AtInst /\ Cur.op = "I32Store8" /\ StoreArm(1, "i32")
Inst_I64Store == AtInst /\ Cur.op = "I64Store" /\ StoreArm(8, "i64")
MemOps == {"I32Load", "I32Load8U", "I64Load", "I32Store", "I32Store8", "I64Store"}

\* The `for` of execute has run out of instructions: execute returns Ok(()).
execute_end ==
    /\ outcome.tag = "running" /\ ret.tag = "none" /\ ctl # <<>>
    /\ Top.pc > Len(Top.code)
    /\ ret' = RetOk
    /\ ev' = [Ev0 EXCEPT !.kind = "end", !.pre = stack, !.depth = Len(ctl), !.frame = Top,
                         !.locals = Last(lstack)]
    /\ UNCHANGED <<build, stream, input, tokens, frames, result, tables, inst, funcs, mems, stack, lstack, ctl, outcome>>

\* ------------------------------------------- the matches on execute's result
\* An invocation has returned `ret`; its invoker is the frame below it.
Returned(via) ==
    /\ outcome.tag = "running" /\ ret.tag # "none" /\ ctl # <<>>
    /\ Top.via = via
Parent == IF Len(ctl) >= 2 THEN ctl[Len(ctl) - 1] ELSE NoFrame
EvHandle ==
    [Ev0 EXCEPT !.kind = "handle", !.op = Top.via, !.tag = ret.tag, !.n = ret.n, !.err = ret.err,
                !.pre = stack, !.depth = Len(ctl), !.frame = Top, !.parent = Parent,
                !.locals = Last(lstack), !.rstk = ret.stk, !.rloc = ret.loc]
\* The invoker's `for` goes on with its next instruction.
Resume == [Front(ctl) EXCEPT ![Len(ctl) - 1].pc = @ + 1]

\* The Block arm's match:
\*   Ok(()) => {}, Err(Break(0)) => return Ok(()),
\*   Err(Break(n)) => return Err(Break(n-1)), Err(e) => return Err(e)
Block_result ==
    /\ Returned("block")
    /\ ctl' = IF ret.tag = "Ok" THEN Resume ELSE Front(ctl)
    /\ ret' = CASE ret.tag = "Ok" -> NoRet
                [] ret.tag = "Break" /\ ret.n = 0 -> [ret EXCEPT !.tag = "Ok"]
                [] ret.tag = "Break" /\ ret.n # 0 -> [ret EXCEPT !.n = @ - 1]
                [] OTHER -> ret
    /\ ev' = EvHandle
    /\ UNCHANGED <<build, stream, input, tokens, frames, result, tables, inst, funcs, mems, stack, lstack, outcome>>

\* A variant of the Loop arm's match that treats the loop's label as the
\* Block arm treats its own: `Err(Break(0)) => return Ok(())`.
Loop_result_as_block ==
    /\ Returned("loop")
    /\ ctl' = IF ret.tag = "Ok" THEN Resume ELSE Front(ctl)
    /\ ret' = CASE ret.tag = "Ok" -> NoRet
                [] ret.tag = "Break" /\ ret.n = 0 -> [ret EXCEPT !.tag = "Ok"]
                [] ret.tag = "Break" /\ ret.n # 0 -> [ret EXCEPT !.n = @ - 1]
                [] OTHER -> ret
    /\ ev' = EvHandle
    /\ UNCHANGED <<build, stream, input, tokens, frames, result, tables, inst, funcs, mems, stack, lstack, outcome>>

\* The Loop arm's match inside `loop { .. }`:
\*   Ok(()) => break, Err(Break(0)) => continue,
\*   Err(Break(n)) => return Err(Break(n-1)), Err(e) => return Err(e)
Loop_result ==
    /\ Returned("loop")
    /\ ctl' = CASE ret.tag = "Ok" -> Resume
                [] ret.tag = "Break" /\ ret.n = 0 -> [ctl EXCEPT ![Len(ctl)].pc = 1]
                [] OTHER -> Front(ctl)
    /\ ret' = CASE ret.tag = "Ok" -> NoRet
                [] ret.tag = "Break" /\ ret.n = 0 -> NoRet
                [] ret.tag = "Break" /\ ret.n # 0 -> [ret EXCEPT !.n = @ - 1]
                [] OTHER -> ret
    /\ ev' = EvHandle
    /\ UNCHANGED <<build, stream, input, tokens, frames, result, tables, inst, funcs, mems, stack, lstack, outcome>>

\* call's match on the body's result, and the `?` of the Call arm after it:
\*   Ok(()) => {}, Err(Return) => {}, Err(Break(_)) => panic!(..),
\*   Err(e) => return Err(e)
\* The outermost call returns to the embedder.
call_result ==
    /\ Returned("call")
    /\ outcome' = CASE ret.tag = "Break" -> Panic("can't break through function")
                    [] Len(ctl) = 1 /\ ret.tag = "Runtime" -> DoneErr(ret.err)
                    [] Len(ctl) = 1 -> DoneOk
                    [] OTHER -> outcome
    /\ ctl' = CASE ret.tag = "Break" -> ctl
                [] Len(ctl) = 1 -> <<>>
                [] ret.tag = "Runtime" -> Front(ctl)
                [] OTHER -> Resume
    /\ lstack' = IF ret.tag = "Break" THEN lstack ELSE Front(lstack)
    /\ ret' = CASE ret.tag = "Break" -> ret
                [] Len(ctl) > 1 /\ ret.tag = "Runtime" -> ret
                [] OTHER -> NoRet
    /\ ev' = EvHandle
    /\ UNCHANGED <<build, stream, input, tokens, frames, result, tables, inst, funcs, mems, stack>>

\* ------------------------------------------------ instance.rs: the Store
\* repr::FuncType, repr::Func, repr::Import, repr::Data and repr::Module as
\* instantiate reads them. `typ` and `start` are indices from 0; a module
\* without a start function has start = -1 (Option::None).
FuncType(from, to) == [from |-> from, to |-> to]
Func(typ, locals, body) == [typ |-> typ, locals |-> locals, body |-> body]
Import(module, nm, desc, t) == [module |-> module, nm |-> nm, desc |-> desc, t |-> t]
ActiveData(memory, offset, init) ==
    [mode |-> "active", memory |-> memory, offset |-> offset, init |-> init]
PassiveData(init) == [mode |-> "passive", memory |-> 0, offset |-> <<>>, init |-> init]
ReprModule(types, imports, fns, tbls, mms, datas, start) ==
    [types |-> types, imports |-> imports, funcs |-> fns, tables |-> tbls, mems |-> mms,
     datas |-> datas, start |-> start]
NoModule == ReprModule(<<>>, <<>>, <<>>, <<>>, <<>>, <<>>, -1)

\* FuncInst::External with its host callable.
HostFunc(functype, hostfunc) ==
    [kind |-> "external", from |-> functype.from, to |-> functype.to, locals |-> <<>>,
     body |-> <<>>, func |-> hostfunc]

\* Store::allocfunc: the address is the length before the push; the type is
\* looked up in the module instance's types (index panic when out of range).
allocfunc(fs, func, types) ==
    IF func.typ + 1 > Len(types)
    THEN [k |-> "panic", err |-> "index", funcs |-> fs, addr |-> 0]
    ELSE [k |-> "ok", err |-> "", addr |-> Len(fs),
          funcs |-> Append(fs, LocalFunc(types[func.typ + 1].from, types[func.typ + 1].to,
                                         func.locals, func.body))]

\* A variant of allochostfunc that takes the address after the push.
allochostfunc_after_push(fs, functype, hostfunc) ==
    [funcs |-> Append(fs, HostFunc(functype, hostfunc)), addr |-> Len(fs) + 1]

\* Store::allochostfunc
allochostfunc(fs, functype, hostfunc) ==
    [funcs |-> Append(fs, HostFunc(functype, hostfunc)), addr |-> Len(fs)]

\* Store::allocmem: limits.min pages of zero bytes.
allocmem(ms, memtype) ==
    [mems |-> Append(ms, [i \in 1..(memtype.min * WASM_PAGE_SIZE) |-> 0]), addr |-> Len(ms)]

\* Store::alloctable: limits.min null references.
alloctable(ts, tabletype) ==
    [tables |-> Append(ts, [typ |-> tabletype, elem |-> [i \in 1..tabletype.min |-> "null"]]),
     addr |-> Len(ts)]

\* Externals::get_func: `self.values.remove(&name)?`; values is a map, here
\* the set of its entries [name, func].
get_func(values, name) ==
    IF \E e \in values : e.name = name
    THEN LET e == CHOOSE x \in values : x.name = name
         IN [some |-> TRUE, func |-> e.func, values |-> values \ {e}]
    ELSE [some |-> FALSE, func |-> "", values |-> values]

\* The offset expression of an active data segment, run by Machine::execute
\* on a fresh stack; `.unwrap()` turns an Err into a panic. The modules
\* considered have constant expressions: constants and i32 operators.
RECURSIVE const_expr(_, _)
const_expr(expr, stk) ==
    IF expr = <<>> THEN [k |-> "ok", err |-> "", stack |-> stk] ELSE
    CASE Head(expr).op = "I32Const" ->
             const_expr(Tail(expr), Append(stk, I32(Head(expr).a)))
      [] Head(expr).op = "I64Const" ->
             const_expr(Tail(expr), Append(stk, I64(Head(expr).a)))
      [] Head(expr).op \in BinOps ->
             IF binop_i32(stk, Head(expr).op).k = "ok"
             THEN const_expr(Tail(expr), binop_i32(stk, Head(expr).op).stack)
             ELSE [k |-> "panic", err |-> "unwrap", stack |-> stk]
      [] OTHER -> [k |-> "panic", err |-> "unwrap", stack |-> stk]

\* A variant of the copy that writes byte by byte (`mem.data[offset + j] =
\* init[j]`), each index checked when it is written.
data_copy_bytewise(mem, offset, init) ==
    IF slice_range(offset, Len(init), Len(mem)).k # "ok"
    THEN [k |-> "panic", err |-> "index", mem |-> write_slice(mem, offset, init)]
    ELSE [k |-> "ok", err |-> "", mem |-> write_slice(mem, offset, init)]

\* `mem.data[offset..offset+len].copy_from_slice(&data.init)`: the range of
\* the slice is checked before anything is copied.
data_copy(mem, offset, init) ==
    IF slice_range(offset, Len(init), Len(mem)).k # "ok"
    THEN [k |-> "panic", err |-> slice_range(offset, Len(init), Len(mem)).err, mem |-> mem]
    ELSE [k |-> "ok", err |-> "", mem |-> write_slice(mem, offset, init)]

\* One iteration of `for data in &module.datas`.
data_segment(d, mem_addrs, ms) ==
    IF d.mode # "active" THEN [k |-> "ok", err |-> "", mems |-> ms] ELSE
    IF d.memory # 0 THEN [k |-> "panic", err |-> "assert", mems |-> ms] ELSE
    LET e == const_expr(d.offset, <<>>) IN
    IF e.k # "ok" THEN [k |-> "panic", err |-> e.err, mems |-> ms] ELSE
    LET p == pop(e.stack) IN
    IF p.k # "ok" THEN [k |-> "panic", err |-> "unwrap", mems |-> ms] ELSE
    IF p.val.t # "i32" THEN [k |-> "panic", err |-> "panic", mems |-> ms] ELSE
    IF mem_addrs = <<>> THEN [k |-> "panic", err |-> "index", mems |-> ms] ELSE
    IF mem_addrs[1] + 1 > Len(ms) THEN [k |-> "panic", err |-> "index", mems |-> ms] ELSE
    LET c == data_copy(ms[mem_addrs[1] + 1], I32AsUsize(p.val.v), d.init) IN
    [k |-> c.k, err |-> c.err, mems |-> [ms EXCEPT ![mem_addrs[1] + 1] = c.mem]]

\* ---------------------------------------------- instance.rs: instantiate
\* The activation of instantiate: `pc` is the loop it is in ("none" before
\* any call, "return" at `return inst`, "returned" once it has returned,
\* "panic" once it has panicked), `i` the item of that loop, `externals` the
\* Externals it owns, types/func_addrs/mem_addrs/table_addrs the ModuleInst.
\* Observation: funcs0/mems0/tables0 are the Store when instantiate was
\* called, `step`/`at`/`before` the loop and item executed last and the
\* memories before it, `calls` the functions instantiate has called through
\* Machine::call, `log` every address an alloc* has returned, with the length
\* of the vector before it and the instance pushed (for a memory, its size),
\* `had` the externals before the item executed last, and `count` the number
\* of instantiate calls.
NoInst ==
    [pc |-> "none", i |-> 0, module |-> NoModule, externals |-> {}, types |-> <<>>,
     func_addrs |-> <<>>, mem_addrs |-> <<>>, table_addrs |-> <<>>, err |-> "",
     funcs0 |-> <<>>, mems0 |-> <<>>, tables0 |-> <<>>, step |-> "", at |-> 0,
     before |-> <<>>, had |-> {}, calls |-> <<>>, log |-> <<>>, count |-> 0]

\* The loops of instantiate in their order, and the items each runs over.
Phases == <<"imports", "funcs", "tables", "mems", "datas">>
Items(m, k) ==
    CASE k = 1 -> m.imports [] k = 2 -> m.funcs [] k = 3 -> m.tables
      [] k = 4 -> m.mems [] OTHER -> m.datas
\* Where control is when loop k is about to take item i: at that item, or
\* at the first item of the next loop that has one, or at `return inst`.
RECURSIVE Seek(_, _, _)
Seek(m, k, i) ==
    IF k > Len(Phases) THEN [pc |-> "return", i |-> 0] ELSE
    IF i <= Len(Items(m, k)) THEN [pc |-> Phases[k], i |-> i] ELSE Seek(m, k + 1, 1)

InLoop(k) == outcome.tag = "idle" /\ inst.pc = Phases[k]
\* The activation after the item at hand: r holds the fields the item changed.
Stepped(k, r) ==
    [r EXCEPT !.pc = Seek(inst.module, k, inst.i + 1).pc,
              !.i = Seek(inst.module, k, inst.i + 1).i,
              !.step = Phases[k], !.at = inst.i, !.before = mems, !.had = inst.externals]
Panicked(k, msg) ==
    [inst EXCEPT !.pc = "panic", !.err = msg, !.step = Phases[k], !.at = inst.i,
                 !.before = mems, !.had = inst.externals]
Logged(kind, addr, len, obj) ==
    Append(inst.log, [kind |-> kind, addr |-> addr, len |-> len, obj |-> obj])

\* The modules and externals instantiate is called with.
AddType == FuncType(<<"i32", "i32">>, <<"i32">>)
ImportAdd == Import("env", "add", "func", 0)
ImportSub == Import("env", "sub", "func", 0)
ImportMem == Import("env", "mem", "mem", 0)
ExternAdd == [name |-> <<"env", "add">>, func |-> "host_add"]
ExternSub == [name |-> <<"env", "sub">>, func |-> "host_sub"]
OneFunc == <<Func(0, <<>>, <<Ins("LocalGet", 0)>>)>>
OneTable == <<[min |-> 1, reftype |-> "funcref"]>>
MemOf(pages) == <<[min |-> pages]>>
InitBytes == {<<>>, <<1>>, <<1, 1>>}
DataOffsets == {-1, 0, WASM_PAGE_SIZE - 2, WASM_PAGE_SIZE - 1, WASM_PAGE_SIZE}
DataAt(o, init) == ActiveData(0, <<Ins("I32Const", o)>>, init)
InstCall(imports, externals, fns, tbls, mms, datas, start) ==
    [module |-> ReprModule(<<AddType>>, imports, fns, tbls, mms, datas, start),
     externals |-> externals]
ImportCalls ==
    { InstCall(c[1], c[2], OneFunc, OneTable, MemOf(1), <<>>, -1) :
        c \in { <<<<>>, {}>>, <<<<ImportAdd>>, {ExternAdd}>>, <<<<ImportAdd>>, {}>>,
                <<<<ImportAdd, ImportSub>>, {ExternAdd}>>,
                <<<<ImportAdd, ImportSub>>, {ExternAdd, ExternSub}>>,
                <<<<ImportMem>>, {ExternAdd}>>,
                <<<<ImportAdd, ImportAdd>>, {ExternAdd}>> } }
DefCalls ==
    { InstCall(<<>>, {}, <<>>, <<>>, <<>>, <<>>, -1),
      InstCall(<<>>, {}, OneFunc, <<>>, <<>>, <<>>, 0),
      InstCall(<<>>, {}, <<Func(1, <<>>, <<>>)>>, OneTable, <<>>, <<>>, -1) }
DataLists ==
    { <<DataAt(o, init)>> : o \in DataOffsets, init \in InitBytes }
      \cup { <<DataAt(0, <<1>>), DataAt(WASM_PAGE_SIZE - 1, <<1, 1>>)>>,
             <<PassiveData(<<1>>)>>,
             <<ActiveData(1, <<Ins("I32Const", 0)>>, <<1>>)>>,
             <<ActiveData(0, <<>>, <<1>>)>>,
             <<ActiveData(0, <<Ins("I64Const", 0)>>, <<1>>)>>,
             <<ActiveData(0, <<Ins("I32Const", 1), Ins("I32Const", 1), Ins("I32Add", 0)>>,
                          <<1>>)>> }
DataCalls ==
    { InstCall(<<ImportAdd>>, {ExternAdd}, OneFunc, <<>>, MemOf(1), d, 1) : d \in DataLists }
      \cup { InstCall(<<>>, {}, <<>>, <<>>, <<>>, <<DataAt(0, <<1>>)>>, -1),
             InstCall(<<>>, {}, <<>>, <<>>, MemOf(0), <<DataAt(0, <<>>)>>, -1),
             InstCall(<<>>, {}, <<>>, <<>>, MemOf(0), <<DataAt(0, <<1>>)>>, -1) }
InstCalls == ImportCalls \cup DefCalls \cup DataCalls

\* instantiate is called with a module and externals: lines 139-147.
instantiate_call ==
    /\ outcome.tag = "idle"
    /\ inst.pc \in {"none", "returned"}
    /\ inst.count < MaxInstantiations
    /\ \E c \in InstCalls :
          inst' = [NoInst EXCEPT !.pc = Seek(c.module, 1, 1).pc, !.i = Seek(c.module, 1, 1).i,
                                 !.module = c.module, !.externals = c.externals,
                                 !.types = c.module.types,
                                 !.funcs0 = funcs, !.mems0 = mems, !.tables0 = tables,
                                 !.step = "call", !.before = mems, !.had = c.externals,
                                 !.log = inst.log, !.count = inst.count + 1]
    /\ UNCHANGED <<build, stream, input, tokens, frames, result, funcs, mems, tables, stack, lstack, ctl, ret, outcome, ev>>

\* One iteration of `for import in &module.imports`.
inst_import ==
    /\ InLoop(1)
    /\ LET imp == inst.module.imports[inst.i]
           g == get_func(inst.externals, <<imp.module, imp.nm>>)
       IN
       IF imp.desc # "func" THEN inst' = Panicked(1, "todo") /\ funcs' = funcs ELSE
       IF imp.t + 1 > Len(inst.module.types)
       THEN inst' = Panicked(1, "index") /\ funcs' = funcs ELSE
       IF ~g.some THEN inst' = Panicked(1, "unwrap") /\ funcs' = funcs ELSE
       LET a == allochostfunc(funcs, inst.module.types[imp.t + 1], g.func) IN
       /\ funcs' = a.funcs
       /\ inst' = Stepped(1, [inst EXCEPT !.externals = g.values,
                                          !.func_addrs = Append(@, a.addr),
                                          !.log = Logged("func", a.addr, Len(funcs), Last(a.funcs))])
    /\ UNCHANGED <<build, stream, input, tokens, frames, result, mems, tables, stack, lstack, ctl, ret, outcome, ev>>

\* One iteration of `for func in &module.funcs`.
inst_func ==
    /\ InLoop(2)
    /\ LET a == allocfunc(funcs, inst.module.funcs[inst.i], inst.types) IN
       /\ funcs' = a.funcs
       /\ inst' = IF a.k # "ok" THEN Panicked(2, a.err)
                  ELSE Stepped(2, [inst EXCEPT !.func_addrs = Append(@, a.addr),
                                               !.log = Logged("func", a.addr, Len(funcs), Last(a.funcs))])
    /\ UNCHANGED <<build, stream, input, tokens, frames, result, mems, tables, stack, lstack, ctl, ret, outcome, ev>>

\* One iteration of `for table in &module.tables`.
inst_table ==
    /\ InLoop(3)
    /\ LET a == alloctable(tables, inst.module.tables[inst.i]) IN
       /\ tables' = a.tables
       /\ inst' = Stepped(3, [inst EXCEPT !.table_addrs = Append(@, a.addr),
                                          !.log = Logged("table", a.addr, Len(tables), Last(a.tables))])
    /\ UNCHANGED <<build, stream, input, tokens, frames, result, funcs, mems, stack, lstack, ctl, ret, outcome, ev>>

\* One iteration of `for mem in &module.mems`.
inst_mem ==
    /\ InLoop(4)
    /\ LET a == allocmem(mems, inst.module.mems[inst.i]) IN
       /\ mems' = a.mems
       /\ inst' = Stepped(4, [inst EXCEPT !.mem_addrs = Append(@, a.addr),
                                          !.log = Logged("mem", a.addr, Len(mems), Len(Last(a.mems)))])
    /\ UNCHANGED <<build, stream, input, tokens, frames, result, funcs, tables, stack, lstack, ctl, ret, outcome, ev>>

\* One iteration of `for data in &module.datas`.
inst_data ==
    /\ InLoop(5)
    /\ LET r == data_segment(inst.module.datas[inst.i], inst.mem_addrs, mems) IN
       /\ mems' = r.mems
       /\ inst' = IF r.k # "ok" THEN Panicked(5, r.err) ELSE Stepped(5, inst)
    /\ UNCHANGED <<build, stream, input, tokens, frames, result, funcs, tables, stack, lstack, ctl, ret, outcome, ev>>

\* `return inst;` There is nothing between the data segments and it.
inst_return ==
    /\ outcome.tag = "idle"
    /\ inst.pc = "return"
    /\ inst' = [inst EXCEPT !.pc = "returned", !.step = "return", !.before = mems]
    /\ UNCHANGED <<build, stream, input, tokens, frames, result, funcs, mems, tables, stack, lstack, ctl, ret, outcome, ev>>

\* ---------------------------------------------------------------- modules
\* The modules and operands the checks run: every body of a bounded shape.
\* Function 0 is the one the embedder calls, function 1 a local callee and
\* function 2 an imported (external) function.
I32T == <<"i32">>
OneLocal == <<[n |-> 1, t |-> "i32"]>>
Callee0 == LocalFunc(<<>>, <<>>, <<>>, <<>>)
Import0 == ExternalFunc(<<>>, <<>>)
Module(f0, f1) == <<f0, f1, Import0>>

Leaf == {Ins("I32Const", 1), Ins("Break", 0), Ins("Break", 1), Ins("BreakIf", 0),
         Ins("Return", 0), Ins("LocalSet", 0)}
Seqs0 == {<<>>} \cup {<<i>> : i \in Leaf}
Compound1 == {Blk(op, 0, b) : op \in {"Block", "Loop"}, b \in Seqs0}
Seqs1 ==
    {<<>>} \cup {<<i>> : i \in Leaf \cup Compound1}
           \cup {<<i, j>> : i \in Leaf, j \in Leaf \cup Compound1}
           \cup {<<i, j>> : i \in Compound1, j \in Leaf}
Compound2 ==
    {Blk("Block", bt, b) : bt \in {0, 1}, b \in Seqs1} \cup {Blk("Loop", 0, b) : b \in Seqs1}
ControlBodies == Seqs1 \cup {<<i, Ins("I32Const", 2)>> : i \in Compound2}
ControlModules == {Module(LocalFunc(<<>>, <<>>, OneLocal, b), Callee0) : b \in ControlBodies}
ControlStacks == SeqsUpTo({I32(0), I32(1)}, MaxInitStack)

\* Calls: a caller around `call 1`, and the callees it may reach.
CallerBodies ==
    {<<Ins("Call", 1)>>, <<Ins("Call", 1), Ins("I32Const", 2)>>,
     <<Blk("Block", 0, <<Ins("Call", 1)>>), Ins("I32Const", 2)>>,
     <<Ins("I32Const", 1), Ins("Call", 1), Ins("Drop", 0)>>,
     <<Ins("Call", 2)>>, <<Ins("Call", 3)>>}
CalleeBodies ==
    {<<>>, <<Ins("I32Const", 1)>>, <<Ins("Return", 0)>>,
     <<Ins("I32Const", 1), Ins("Return", 0)>>,
     <<Ins("I32Const", 1), Ins("I32Const", 2), Ins("Return", 0)>>,
     <<Ins("I32Const", 1), Ins("I32Const", 2)>>,
     <<Ins("LocalGet", 0)>>, <<Ins("LocalGet", 1), Ins("Return", 0)>>,
     <<Ins("Drop", 0)>>,
     <<Ins("Break", 0)>>, <<Ins("BreakIf", 0), Ins("I32Const", 1)>>,
     <<Blk("Block", 0, <<Ins("Break", 1)>>)>>,
     <<Blk("Block", 0, <<Ins("Break", 0)>>), Ins("I32Const", 1)>>,
     <<Blk("Loop", 0, <<Ins("BreakIf", 1)>>)>>,
     <<Blk("Block", 0, <<Ins("Return", 0)>>), Ins("I32Const", 1)>>,
     <<Ins("Unreachable", 0)>>,
     <<Blk("Block", 0, <<Ins("Unreachable", 0)>>)>>}
CalleeLocals == {<<>>, <<[n |-> 2, t |-> "i32"]>>, <<[n |-> 1, t |-> "i64"], [n |-> 1, t |-> "f32"]>>,
                 <<[n |-> 1, t |-> "f64"]>>}
Callees ==
    {LocalFunc(from, to, <<>>, b) : from \in {<<>>, I32T}, to \in {<<>>, I32T}, b \in CalleeBodies}
    \cup {LocalFunc(I32T, I32T, ls, <<Ins("LocalGet", 1), Ins("Return", 0)>>) : ls \in CalleeLocals}
    \cup {LocalFunc(<<"i32", "i32">>, I32T, ls, <<Ins("LocalGet", 1), Ins("Return", 0)>>) :
            ls \in CalleeLocals}
\* A wrapper around an imported host function of type (i32, i32) -> i32.
HostAddModule ==
    <<LocalFunc(<<>>, I32T, <<>>, <<Ins("I32Const", 2), Ins("I32Const", 3), Ins("Call", 2)>>),
      Callee0, ExternalFunc(<<"i32", "i32">>, I32T)>>
CallModules ==
    {Module(LocalFunc(<<>>, <<>>, <<>>, cb), f1) : cb \in CallerBodies, f1 \in Callees}
    \cup {HostAddModule}
CallStacks == SeqsUpTo({I32(0), I32(1)}, MaxInitStack)

\* Loads and stores: every memory instruction with a sample of memargs, alone,
\* inside a block, and inside a callee.
AlignSamples == {0, 1, 2, UsizeBits + 1}
OffsetSamples == {0, 1, U32Max}
MemInsts == {MemIns(op, al, off) : op \in MemOps, al \in AlignSamples, off \in OffsetSamples}
MemModules ==
    {Module(LocalFunc(<<>>, <<>>, <<>>, <<m>>), Callee0) : m \in MemInsts}
    \cup {Module(LocalFunc(<<>>, <<>>, <<>>, <<Blk("Block", 0, <<m>>), Ins("I32Const", 2)>>), Callee0) :
            m \in {MemIns(op, 0, 0) : op \in MemOps}}
    \cup {Module(LocalFunc(<<>>, <<>>, <<>>, <<Ins("Call", 1), Ins("I32Const", 2)>>),
                 LocalFunc(<<>>, <<>>, <<>>, <<m>>)) :
            m \in {MemIns(op, 0, 0) : op \in MemOps}}
MemStacks ==
    SeqsUpTo({I32(0 - 1), I32(0), I32(WASM_PAGE_SIZE), I32(WASM_PAGE_SIZE + 1), I64(1)},
             MaxInitStack)
ZeroMem(pages) == [i \in 1..(pages * WASM_PAGE_SIZE) |-> 0]
PatternMem(pages) == [i \in 1..(pages * WASM_PAGE_SIZE) |-> i % ByteMod]
MemStores == {<<>>} \cup {<<PatternMem(p)>> : p \in 1..MaxPages}

\* A store, then a load of the same width with the same memarg; the base of
\* the store is on the stack with the value, the base of the load a constant.
RoundTripBodies ==
    {<<MemIns(p[1], 0, off), Ins("I32Const", b), MemIns(p[2], 0, off)>> :
        p \in {<<"I32Store", "I32Load">>, <<"I64Store", "I64Load">>,
               <<"I32Store8", "I32Load8U">>},
        off \in {0, 1}, b \in {0, 1}}
RoundTripModules == {Module(LocalFunc(<<>>, <<>>, <<>>, b), Callee0) : b \in RoundTripBodies}
RoundTripStacks ==
    {<<I32(b), v>> : b \in {0, 1},
                     v \in {I32(I32Min), I32(0 - 1), I32(I32Max - 2), I64(0 - 1),
                            I64(I64Mod \div 2 - 3), I64(0 - (I64Mod \div 2))}}

\* Every other arm of execute, alone and after a constant.
OtherInsts ==
    {Ins(op, 0) : op \in BinOps \cup TodoOps \cup {"I32Eqz", "Select", "Drop", "Unreachable"}}
    \cup {Ins(op, a) : op \in {"LocalGet", "LocalSet", "LocalTee"}, a \in {0, 1}}
    \cup {Ins("I64Const", 1), Ins("I32Const", I32Min)}
OtherModules ==
    {Module(LocalFunc(<<>>, <<>>, OneLocal, <<i>>), Callee0) : i \in OtherInsts}
    \cup {Module(LocalFunc(<<>>, <<>>, OneLocal, <<Ins("I32Const", 1), i>>), Callee0) :
            i \in OtherInsts}
OtherStacks == SeqsUpTo({I32(1), I32(I32Max), I32(0 - 1), I64(0)}, MaxInitStack)

\* The state after `Machine { stack, store }` is built: the store holds the
\* module's functions and memory, the embedder has pushed the operands.
Init ==
    /\ build \in {"debug", "release"}
    /\ \/ funcs \in ControlModules /\ stack \in ControlStacks /\ mems = <<ZeroMem(1)>>
       \/ funcs \in CallModules /\ stack \in CallStacks /\ mems = <<ZeroMem(1)>>
       \/ funcs \in MemModules /\ stack \in MemStacks /\ mems \in MemStores
       \/ funcs \in OtherModules /\ stack \in OtherStacks /\ mems = <<ZeroMem(1)>>
       \/ funcs \in RoundTripModules /\ stack \in RoundTripStacks
            /\ mems = <<PatternMem(MaxPages)>>
    /\ lstack = <<>>
    /\ ctl = <<>>
    /\ ret = NoRet
    /\ outcome = Idle
    /\ ev = Ev0
    /\ tables = <<>>
    /\ inst = NoInst
    /\ stream = <<>> /\ input = <<>> /\ tokens = <<>> /\ frames = <<>>
    /\ result = NoResult

Next ==
    \/ Machine_call
    \/ Inst_Unreachable
    \/ Inst_todo
    \/ Inst_Block
    \/ Inst_Loop
    \/ Inst_Break
    \/ Inst_BreakIf
    \/ Inst_Return
    \/ Inst_Call
    \/ Inst_Select
    \/ Inst_LocalGet
    \/ Inst_LocalSet
    \/ Inst_LocalTee
    \/ Inst_I32Binop
    \/ Inst_I32Eqz
    \/ Inst_I32Const
    \/ Inst_I64Const
    \/ Inst_Drop
    \/ Inst_I32Load
    \/ Inst_I32Load8U
    \/ Inst_I64Load
    \/ Inst_I32Store
    \/ Inst_I32Store8
    \/ Inst_I64Store
    \/ execute_end
    \/ Block_result
    \/ Loop_result
    \/ call_result

Spec == Init /\ [][Next]_vars

\* Instantiation: a new, empty Store, and modules instantiated into it one
\* after the other.
InitInst ==
    /\ build \in {"debug", "release"}
    /\ funcs = <<>> /\ mems = <<>> /\ tables = <<>>
    /\ stack = <<>> /\ lstack = <<>> /\ ctl = <<>>
    /\ ret = NoRet /\ outcome = Idle /\ ev = Ev0
    /\ inst = NoInst
    /\ stream = <<>> /\ input = <<>> /\ tokens = <<>> /\ frames = <<>>
    /\ result = NoResult

NextInst ==
    \/ instantiate_call
    \/ inst_import
    \/ inst_func
    \/ inst_table
    \/ inst_mem
    \/ inst_data
    \/ inst_return

SpecInst == InitInst /\ [][NextInst]_vars

\* ------------------------------------------------------------ properties
\* The last step handled a branch that reached its target label: the
\* invocation of a block's or loop's body returned Err(Break(0)).
Landed(via) == ev.kind = "handle" /\ ev.op = via /\ ev.tag = "Break" /\ ev.n = 0
\* The last step executed a load or store whose operands have the right kinds.
MemStep == ev.kind = "exec" /\ ev.op \in MemOps /\ ev.mu.typed
\* The effective address as an unsigned 32-bit base plus the offset.
EaU32 == AsU32(ev.mu.base) + ev.mu.offset

\* C1: when a branch targets the label of a block that is followed by further
\* instructions, execution resumes at the instruction right after the block in
\* the enclosing sequence.
C1_BranchResumesAfterBlock ==
    (Landed("block") /\ ev.parent.pc < Len(ev.parent.code)) =>
        /\ ret.tag = "none"
        /\ Len(ctl) = ev.depth - 1
        /\ Top = [ev.parent EXCEPT !.pc = @ + 1]

\* C2: after a branch has reached its label, the operand stack is the stack
\* as it was when the label's block or loop was entered, followed by exactly
\* the label's arity many values taken from the top of the stack at the branch.
C2_BranchKeepsArityValues ==
    ((Landed("block") \/ Landed("loop")) /\ Len(ev.rstk) >= ev.frame.arity) =>
        stack = ev.frame.entry \o LastN(ev.rstk, ev.frame.arity)

\* C3: a load or store that completes normally touched only bytes inside the
\* memory: ea + N/8 <= |memory| at the access, the bytes touched are those from
\* ea on, and a store leaves the length and every other byte as they were.
C3_AccessWithinMemory ==
    (MemStep /\ ev.res = "ok") =>
        /\ ev.mu.ea + ev.mu.n <= ev.mu.len
        /\ ev.mu.at = ev.mu.ea .. (ev.mu.ea + ev.mu.n - 1)
        /\ ev.mu.at \subseteq 0 .. (ev.mu.len - 1)
        /\ Len(mems[1]) = ev.mu.len
        /\ \A i \in 0 .. (ev.mu.len - 1) :
              i \notin ev.mu.at => mems[1][i + 1] = ev.mu.before[1][i + 1]

\* C3, its case: a store completed at the very end of the memory.
C3_StoreAtEnd ==
    /\ MemStep /\ ev.res = "ok" /\ ev.op = "I32Store"
    /\ ev.mu.ea + ev.mu.n = ev.mu.len
    /\ mems # ev.mu.before

\* C4: an access whose effective address (u32 base plus offset) plus N/8
\* exceeds the memory ends with the out-of-bounds error, the memory is
\* unchanged, and every invoker up to the caller of Machine::call passes that
\* error on.
C4_OobIsReturnedError ==
    /\ (MemStep /\ ev.mu.align = 0 /\ EaU32 + ev.mu.n > ev.mu.len) =>
          /\ ev.res = "err"
          /\ ret.tag = "Runtime" /\ ret.err = "OobAccess"
          /\ mems = ev.mu.before
    /\ (ev.kind = "handle" /\ ev.tag = "Runtime" /\ ev.err = "OobAccess") =>
          IF ev.depth = 1 THEN outcome = DoneErr("OobAccess")
          ELSE ret.tag = "Runtime" /\ ret.err = "OobAccess"

\* C5: when the u32 base plus the offset exceeds 2^32 - 1 the access traps: it
\* returns an error, and never completes at a wrapped, lower address.
C5_NoWrapAround ==
    (MemStep /\ EaU32 > U32Max) => ev.res = "err"

\* The result of the executed load or store arm, had its memarg.align been al.
ArmWithAlign(al) ==
    CASE ev.op = "I32Load" -> load(ev.pre, ev.mu.before, al, ev.mu.offset, 4, "i32")
      [] ev.op = "I32Load8U" -> load(ev.pre, ev.mu.before, al, ev.mu.offset, 1, "i32")
      [] ev.op = "I64Load" -> load(ev.pre, ev.mu.before, al, ev.mu.offset, 8, "i64")
      [] ev.op = "I32Store" -> store(ev.pre, ev.mu.before, al, ev.mu.offset, 4, "i32")
      [] ev.op = "I32Store8" -> store(ev.pre, ev.mu.before, al, ev.mu.offset, 1, "i32")
      [] OTHER -> store(ev.pre, ev.mu.before, al, ev.mu.offset, 8, "i64")

\* C6: memarg.align is only a hint: with the same stack, memory, base and
\* offset, a load or store ends as it does with align 0 (same result kind,
\* same error, same stack, same memory).
C6_AlignIsHint ==
    MemStep =>
        /\ ev.res = ArmWithAlign(0).k
        /\ ev.mu.err = ArmWithAlign(0).err
        /\ stack = ArmWithAlign(0).stack
        /\ (ev.res = "ok" => mems = (IF ev.op \in {"I32Store", "I32Store8", "I64Store"}
                                      THEN ArmWithAlign(0).mems ELSE ev.mu.before))

\* C7: after a call to a local function has returned normally (its body ran
\* to the end with its results on the stack, or executed `return` with at
\* least its results on the stack),
\* the operand stack is the caller's stack below the popped arguments followed
\* by exactly as many values as the function type has results.
C7_CallLeavesResults ==
    (/\ ev.kind = "handle" /\ ev.op = "call"
     /\ \/ ev.tag = "Ok" /\ Len(ev.pre) = Len(ev.frame.entry) + ev.frame.arity
        \/ ev.tag = "Return" /\ Len(ev.pre) >= Len(ev.frame.entry) + ev.frame.arity) =>
        /\ Len(stack) = Len(ev.frame.entry) + ev.frame.arity
        /\ SubSeq(stack, 1, Len(ev.frame.entry)) = ev.frame.entry

\* C8: a branch that reaches the function's implicit outermost label ends the
\* call normally, exactly as `return` does: the outermost call gives Ok to the
\* embedder, a nested one lets its caller go on after the call instruction.
C8_BranchToFunctionLabelReturns ==
    (ev.kind = "handle" /\ ev.op = "call" /\ ev.tag = "Break" /\ ev.n = 0) =>
        IF ev.depth = 1 THEN outcome = DoneOk
        ELSE /\ outcome.tag = "running"
             /\ ret.tag = "none"
             /\ Top = [ev.parent EXCEPT !.pc = @ + 1]

\* C9: (a) a branch that reaches a loop's label restarts the loop body at its
\* first instruction, in the same invocation depth, with the locals as they
\* were at the branch; (b) a body that runs to its end leaves the loop, and
\* execution goes on after the loop instruction; (c) a loop body stands at its
\* first instruction only right after the loop was entered or after such a
\* branch.
C9_LoopRestartsOnlyOnBranch ==
    /\ Landed("loop") =>
          /\ ret.tag = "none"
          /\ Len(ctl) = ev.depth
          /\ Top = [ev.frame EXCEPT !.pc = 1]
          /\ Last(lstack) = ev.rloc
    /\ (ev.kind = "handle" /\ ev.op = "loop" /\ ev.tag = "Ok") =>
          /\ ret.tag = "none"
          /\ Len(ctl) = ev.depth - 1
          /\ Top = [ev.parent EXCEPT !.pc = @ + 1]
    /\ (ctl # <<>> /\ ret.tag = "none" /\ Top.via = "loop" /\ Top.pc = 1) =>
          \/ ev.kind = "exec" /\ ev.op = "Loop"
          \/ Landed("loop")

\* C9, its case: a branch restarted a loop body after the body had changed a
\* local, and the body had got past its first instruction.
C9_LoopRestarted ==
    /\ Landed("loop")
    /\ Top.via = "loop" /\ Top.pc = 1
    /\ ev.frame.pc > 1
    /\ Last(lstack) # <<I32(0)>>

\* C10: `unreachable` is a trap: the call returns an error to the embedder and
\* the process goes on.
C10_UnreachableIsTrap ==
    (ev.kind = "exec" /\ ev.op = "Unreachable") =>
        /\ outcome.tag # "panic"
        /\ ret.tag = "Runtime"

\* The last step of instantiate ran item `at` of the loop named.
InstStep(loop) == inst.step = loop /\ inst.pc # "none"
\* The data segment the last step ran, the value its offset expression left,
\* and the size of the memory it targets (0 when the module has none).
StepData == inst.module.datas[inst.at]
StepOffset == pop(const_expr(StepData.offset, <<>>).stack).val
StepMemLen ==
    IF inst.mem_addrs = <<>> THEN 0 ELSE Len(inst.before[inst.mem_addrs[1] + 1])

\* C11: whenever instantiate does not succeed, the Store's function, memory
\* and table vectors are what they were when it was called.
C11_InstantiateTransactional ==
    inst.pc = "panic" =>
        /\ funcs = inst.funcs0
        /\ mems = inst.mems0
        /\ tables = inst.tables0

\* C12: when a function import's name has no entry in Externals, instantiate
\* fails with the UnknownImport error, returned to its caller.
C12_UnknownImportReturned ==
    (/\ InstStep("imports")
     /\ inst.module.imports[inst.at].desc = "func"
     /\ ~get_func(inst.had, <<inst.module.imports[inst.at].module,
                              inst.module.imports[inst.at].nm>>).some) =>
        /\ inst.pc = "error"
        /\ inst.err = "UnknownImport"

\* C13: when an active data segment has offset + |init| > |memory|, its
\* iteration ends instantiate without success and has written no byte: the
\* memories are what they were before the segment.
C13_DataSegmentOutOfRange ==
    (/\ InstStep("datas")
     /\ StepData.mode = "active" /\ StepData.memory = 0
     /\ const_expr(StepData.offset, <<>>).k = "ok"
     /\ const_expr(StepData.offset, <<>>).stack # <<>>
     /\ StepOffset.t = "i32"
     /\ AsU32(StepOffset.v) + Len(StepData.init) > StepMemLen) =>
        /\ inst.pc = "panic"
        /\ mems = inst.before

\* C13, its case: only the last byte of a two-byte segment lies one past the
\* end of the memory, and instantiate has ended in its iteration.
C13_LastByteOnePast ==
    /\ InstStep("datas") /\ inst.pc = "panic"
    /\ StepData.mode = "active" /\ Len(StepData.init) = 2
    /\ inst.mem_addrs # <<>>
    /\ StepOffset = I32(WASM_PAGE_SIZE - 1) /\ StepMemLen = WASM_PAGE_SIZE

\* C14: when the module declares a start function, instantiate has called it
\* exactly once by the time it returns.
C14_StartFunctionCalled ==
    (/\ inst.pc = "returned"
     /\ inst.module.start >= 0 /\ inst.module.start < Len(inst.func_addrs)) =>
        inst.calls = <<inst.func_addrs[inst.module.start + 1]>>

\* C15: a `call f` of an imported host function, with the arguments of its
\* type on the stack, completes: it pops the arguments and leaves the
\* callable's results in their place.
C15_HostCallPushesResults ==
    (/\ ev.kind = "exec" /\ ev.op = "Call"
     /\ ev.frame.code[ev.frame.pc].a < Len(funcs)
     /\ funcs[ev.frame.code[ev.frame.pc].a + 1].kind = "external"
     /\ Len(ev.pre) >= Len(funcs[ev.frame.code[ev.frame.pc].a + 1].from)) =>
        /\ ev.res = "ok"
        /\ outcome.tag # "panic"
        /\ Len(stack) = Len(ev.pre) - Len(funcs[ev.frame.code[ev.frame.pc].a + 1].from)
                                    + Len(funcs[ev.frame.code[ev.frame.pc].a + 1].to)

\* The last step ran an i32 binary operator of ops on two i32 operands; c1 and
\* c2 are the operands in the order binop_i32 names them.
BinStep(ops) ==
    /\ ev.kind = "exec" /\ ev.op \in ops
    /\ Len(ev.pre) >= 2
    /\ Last(ev.pre).t = "i32" /\ ev.pre[Len(ev.pre) - 1].t = "i32"
StepC1 == ev.pre[Len(ev.pre) - 1].v
StepC2 == Last(ev.pre).v
\* The stack binop_i32 leaves when the operator's result is v.
BinResult(v) == Append(SubSeq(ev.pre, 1, Len(ev.pre) - 2), I32(v))

\* C16: i32.add and i32.sub always complete and push (a op b) mod 2^32 as an
\* i32, for every pair of i32 operands.
C16_AddSubWrap ==
    BinStep({"I32Add", "I32Sub"}) =>
        /\ ev.res = "ok"
        /\ stack = BinResult(AsI32(IF ev.op = "I32Add" THEN StepC1 + StepC2
                                                        ELSE StepC1 - StepC2))

\* C17: i32.shl and i32.shr_u always complete and shift by the count modulo
\* 32, for every value and every i32 count (32 and more, and negative ones).
C17_ShiftCountMod ==
    BinStep({"I32Shl", "I32ShrU"}) =>
        /\ ev.res = "ok"
        /\ stack = BinResult(IF ev.op = "I32Shl"
                             THEN AsI32(AsU32(StepC1) * Pow2(AsU32(StepC2) % I32Bits))
                             ELSE AsI32(AsU32(StepC1) \div Pow2(AsU32(StepC2) % I32Bits)))

\* The last step completed the load of a store-then-load body: the third
\* instruction loads with the memarg of the first, a store of the same width,
\* at the base the store took from the stack.
RoundTrip(st, ld) ==
    /\ ev.kind = "exec" /\ ev.op = ld /\ ev.res = "ok"
    /\ ev.depth = 1 /\ ev.frame.pc = 3
    /\ ev.frame.code[1].op = st
    /\ ev.frame.code[1].a = ev.frame.code[3].a /\ ev.frame.code[1].al = ev.frame.code[3].al
    /\ ev.frame.code[2].op = "I32Const"
    /\ Len(ev.frame.entry) = 2
    /\ ev.frame.entry[1] = I32(ev.frame.code[2].a)

\* C18: a load that follows a successful store of the same width at the same
\* effective address pushes the stored value; i32.load8_u after i32.store8
\* pushes the low byte of the value, zero-extended.
C18_StoreLoadRoundTrip ==
    /\ RoundTrip("I32Store", "I32Load") => Last(stack) = ev.frame.entry[2]
    /\ RoundTrip("I64Store", "I64Load") => Last(stack) = ev.frame.entry[2]
    /\ RoundTrip("I32Store8", "I32Load8U") =>
          Last(stack) = I32(AsU32(ev.frame.entry[2].v) % ByteMod)

\* C18, its case: a negative i32 came back from a store at an odd address.
C18_NegativeCameBack ==
    /\ RoundTrip("I32Store", "I32Load")
    /\ ev.frame.entry[2] = I32(I32Min)
    /\ ev.mu.ea = 1
    /\ Last(stack) = I32(I32Min)

\* Inst::LocalSet and Inst::LocalGet on a given stack and locals.
local_set(stk, locals, idx) ==
    IF pop(stk).k # "ok"
    THEN [k |-> pop(stk).k, err |-> pop(stk).err, stack |-> pop(stk).stack, locals |-> locals] ELSE
    IF idx + 1 > Len(locals)
    THEN [k |-> "panic", err |-> "index", stack |-> pop(stk).stack, locals |-> locals]
    ELSE [k |-> "ok", err |-> "", stack |-> pop(stk).stack,
          locals |-> [locals EXCEPT ![idx + 1] = pop(stk).val]]
local_get(stk, locals, idx) ==
    IF idx + 1 > Len(locals)
    THEN [k |-> "panic", err |-> "index", stack |-> stk, locals |-> locals]
    ELSE [k |-> "ok", err |-> "", stack |-> Append(stk, locals[idx + 1]), locals |-> locals]
\* `local.set idx` followed by `local.get idx`: the second runs when the
\* first has completed.
set_then_get(stk, locals, idx) ==
    IF local_set(stk, locals, idx).k # "ok" THEN local_set(stk, locals, idx)
    ELSE local_get(local_set(stk, locals, idx).stack, local_set(stk, locals, idx).locals, idx)

\* C20: from an empty stack, or with idx < |locals|, `local.tee idx` ends as
\* `local.set idx; local.get idx` does: the same result (completed, or the
\* same error), the same operand stack and the same locals.
C20_TeeIsSetThenGet ==
    (/\ ev.kind = "exec" /\ ev.op = "LocalTee"
     /\ (ev.pre = <<>> \/ ev.frame.code[ev.frame.pc].a < Len(ev.locals))) =>
        /\ ev.res = set_then_get(ev.pre, ev.locals, ev.frame.code[ev.frame.pc].a).k
        /\ (ev.pre = <<>> => ev.res = "err")
        /\ ret.err = set_then_get(ev.pre, ev.locals, ev.frame.code[ev.frame.pc].a).err
        /\ stack = set_then_get(ev.pre, ev.locals, ev.frame.code[ev.frame.pc].a).stack
        /\ Last(lstack) = set_then_get(ev.pre, ev.locals, ev.frame.code[ev.frame.pc].a).locals

\* C20, its case: local.tee completed, changed the local and kept the stack.
C20_TeeChangedLocal ==
    /\ ev.kind = "exec" /\ ev.op = "LocalTee" /\ ev.res = "ok"
    /\ Last(lstack) # ev.locals
    /\ stack = ev.pre /\ stack # <<>>

\* The vector of the Store an address of the given kind indexes.
StoreVec(kind) == CASE kind = "func" -> funcs [] kind = "mem" -> mems [] OTHER -> tables
\* The instance at position j of a Store vector, as the log records it (a
\* memory by its size: its bytes may be written).
InstanceAt(kind, vec, j) == IF kind = "mem" THEN Len(vec[j]) ELSE vec[j]

\* C19: every address an alloc* has returned is the number of instances of
\* its kind allocated before it and still indexes the instance it was
\* returned for; and the Store's vectors still begin with the instances they
\* held when instantiate was called, in their order.
C19_StoreAddressesStable ==
    /\ \A j \in 1..Len(inst.log) :
          /\ inst.log[j].addr = inst.log[j].len
          /\ inst.log[j].addr < Len(StoreVec(inst.log[j].kind))
          /\ InstanceAt(inst.log[j].kind, StoreVec(inst.log[j].kind), inst.log[j].addr + 1)
                = inst.log[j].obj
    /\ Len(funcs) >= Len(inst.funcs0) /\ SubSeq(funcs, 1, Len(inst.funcs0)) = inst.funcs0
    /\ Len(tables) >= Len(inst.tables0) /\ SubSeq(tables, 1, Len(inst.tables0)) = inst.tables0
    /\ Len(mems) >= Len(inst.mems0)
    /\ \A j \in 1..Len(inst.mems0) : Len(mems[j]) = Len(inst.mems0[j])

\* C19, its case: a second instantiation has allocated a host function, a
\* local function and a memory in a Store that already held some of each, and
\* has written a data segment.
C19_SecondInstantiation ==
    /\ inst.count = 2 /\ inst.pc = "returned"
    /\ inst.funcs0 # <<>> /\ inst.mems0 # <<>>
    /\ Len(funcs) >= Len(inst.funcs0) + 2
    /\ Len(mems) > Len(inst.mems0)
    /\ mems[Len(mems)] # [i \in 1..Len(mems[Len(mems)]) |-> 0]

\* ================================================================ parser.rs
\* The binary decoder.  A stream is a sequence of real bytes (0..255); the
\* integers the LEB128 decoders build are kept as bit vectors of their real
\* width, least significant bit first, so that no shift or `|` is scaled.
HIGHMASK == 128
U32Width == 32
I64Width == 64

\* What a function of the decoder returns: Ok(v), Err(io::Error) or a panic,
\* and the stream it leaves.
POk(v, rest) == [k |-> "ok", v |-> v, err |-> "", rest |-> rest]
PErr(e, rest) == [k |-> "err", v |-> <<>>, err |-> e, rest |-> rest]
PPanic(msg, rest) == [k |-> "panic", v |-> <<>>, err |-> msg, rest |-> rest]

\* `(byte & !HIGHMASK) as uN`, `x << s` (s below the width), `a | b` and
\* `!0 << s` on bit vectors of width w.
low7(byte, w) == [i \in 1..w |-> IF i <= 7 THEN (byte \div Pow2(i - 1)) % 2 ELSE 0]
shl(x, s) == [i \in 1..Len(x) |-> IF i > s THEN x[i - s] ELSE 0]
bitor(x, y) == [i \in 1..Len(x) |-> IF x[i] = 1 \/ y[i] = 1 THEN 1 ELSE 0]
ones_shl(w, s) == [i \in 1..w |-> IF i > s THEN 1 ELSE 0]
zero_bits(w) == [i \in 1..w |-> 0]

\* read_exact of one byte: an UnexpectedEof error at the end of the stream.
parse_byte(s) == IF s = <<>> THEN PErr("UnexpectedEof", s) ELSE POk(Head(s), Tail(s))

\* read_exact of n bytes.
read_bytes(s, n) ==
    IF Len(s) < n THEN PErr("UnexpectedEof", <<>>)
    ELSE POk(SubSeq(s, 1, n), SubSeq(s, n + 1, Len(s)))

\* The `for _ in 0..5` of parse_u32, at iteration i: a byte without the
\* continuation bit breaks the loop, and after the loop the result is Ok.
RECURSIVE parse_u32_loop(_, _, _, _)
parse_u32_loop(s, i, res, shift) ==
    IF i = 5 THEN POk(res, s)
    ELSE LET byte == parse_byte(s) IN
         IF byte.k # "ok" THEN byte
         ELSE LET r == bitor(res, shl(low7(byte.v, U32Width), shift)) IN
              IF byte.v \div HIGHMASK = 0 THEN POk(r, byte.rest)
              ELSE parse_u32_loop(byte.rest, i + 1, r, shift + 7)

parse_u32(s) == parse_u32_loop(s, 0, zero_bits(U32Width), 0)

\* The `loop` of parse_i32 (w = 32) and of parse_i64 (w = 64), which differ in
\* the type of `result` only.  A shift by the width or more panics in a debug
\* build and is taken modulo the width in a release build.
RECURSIVE parse_signed_loop(_, _, _, _)
parse_signed_loop(s, res, shift, w) ==
    LET byte == parse_byte(s) IN
    IF byte.k # "ok" THEN byte
    ELSE IF shift >= w /\ build = "debug"
    THEN PPanic("attempt to shift left with overflow", byte.rest)
    ELSE LET r == bitor(res, shl(low7(byte.v, w), shift % w))
             shift2 == shift + 7
         IN  IF (byte.v \div HIGHMASK) % 2 = 0
             THEN IF shift2 < 32 /\ (byte.v \div 64) % 2 = 1
                  THEN POk(bitor(r, ones_shl(w, shift2)), byte.rest)
                  ELSE POk(r, byte.rest)
             ELSE parse_signed_loop(byte.rest, r, shift2, w)

parse_i32(s) == parse_signed_loop(s, zero_bits(U32Width), 0, U32Width)
parse_i64(s) == parse_signed_loop(s, zero_bits(I64Width), 0, I64Width)

\* The value of a seven-bit group, and the LEB128 encodings (the shortest
\* ones) of a bit vector taken as a signed and as an unsigned integer.
group7(x) == (x[1] + 2 * x[2]) + (4 * x[3] + 8 * x[4]) + (16 * x[5] + 32 * x[6]) + 64 * x[7]
RECURSIVE sleb128(_)
sleb128(x) ==
    LET w == Len(x)
        rest == [i \in 1..w |-> IF i + 7 <= w THEN x[i + 7] ELSE x[w]]
    IN  IF \A i \in 1..w : rest[i] = x[7] THEN <<group7(x)>>
        ELSE <<group7(x) + HIGHMASK>> \o sleb128(rest)
RECURSIVE uleb128(_)
uleb128(x) ==
    LET w == Len(x)
        rest == [i \in 1..w |-> IF i + 7 <= w THEN x[i + 7] ELSE 0]
    IN  IF \A i \in 1..w : rest[i] = 0 THEN <<group7(x)>>
        ELSE <<group7(x) + HIGHMASK>> \o uleb128(rest)

\* Sample integers of width w: k low bits of a pattern (zeros, ones,
\* alternating) under a run of the bit s.
SampleBits(k, p, s, w) ==
    [i \in 1..w |-> IF i > k THEN s ELSE IF p = 2 THEN i % 2 ELSE p]
I64Samples == {SampleBits(k, p, s, I64Width) : k \in 0..(I64Width - 1), p \in 0..2, s \in 0..1}
U32Samples == {SampleBits(k, p, 0, U32Width) : k \in 0..U32Width, p \in 1..2}
I64Canon == {[v |-> x, enc |-> sleb128(x)] : x \in I64Samples}
U32Canon == {[v |-> x, enc |-> uleb128(x)] : x \in U32Samples}

\* Encodings that go on after the fifth byte.
OverlongTails == {<<>>, <<0>>, <<1>>, <<HIGHMASK>>, <<255, 127>>}
Overlong ==
    {<<a, b, HIGHMASK, 255, c>> \o t :
        a \in {HIGHMASK, 255}, b \in {HIGHMASK, 129}, c \in {HIGHMASK, 143, 255},
        t \in OverlongTails}
LebStreams ==
    {c.enc : c \in I64Canon} \cup {c.enc : c \in U32Canon} \cup Overlong
        \cup {<<>>, <<HIGHMASK>>, <<255, 255>>}

\* The lesser of a u32 and cap, as a number (`0..n` loops and `n as usize`
\* sizes; a stream of fewer than cap bytes ends each of them before cap).
u32_count(x, cap) ==
    IF \E i \in 17..U32Width : x[i] = 1 THEN cap
    ELSE IF FromBits(SubSeq(x, 1, 16)) > cap THEN cap ELSE FromBits(SubSeq(x, 1, 16))

\* The element of a one-element set: The({e : x \in {f(s)}}) is e with x
\* bound to what f(s) returned, `let x = f(s)`.
The(S) == CHOOSE x \in S : TRUE

\* ValType::try_from, as the kind of the byte or "" for UnkownValType.
ValTypeOf(byte) ==
    CASE byte = 127 -> "i32" [] byte = 126 -> "i64" [] byte = 125 -> "f32"
      [] byte = 124 -> "f64" [] byte = 123 -> "v128" [] byte = 112 -> "funcref"
      [] byte = 111 -> "externref" [] OTHER -> ""

parse_valtype(s) ==
    The({IF typ.k # "ok" THEN typ
         ELSE IF ValTypeOf(typ.v) = "" THEN PErr("unknown value type", typ.rest)
         ELSE POk(ValTypeOf(typ.v), typ.rest) : typ \in {parse_byte(s)}})

\* `for _ in 0..n { vals.push(self.parse_X()?) }`, X named by `what`.
RECURSIVE parse_item(_, _)
RECURSIVE parse_vec(_, _, _, _)
parse_vec(what, s, n, acc) ==
    IF n = 0 THEN POk(acc, s)
    ELSE The({IF r.k # "ok" THEN r ELSE parse_vec(what, r.rest, n - 1, Append(acc, r.v)) :
              r \in {parse_item(what, s)}})

\* `let elems = self.parse_u32()?` and the loop over 0..elems.
parse_counted(what, s) ==
    The({IF elems.k # "ok" THEN elems
         ELSE parse_vec(what, elems.rest, u32_count(elems.v, Len(elems.rest) + 1), <<>>) :
         elems \in {parse_u32(s)}})

parse_resulttype(s) == parse_counted("valtype", s)

\* parse_functype after its header byte.
functype_body(s) ==
    The({IF from.k # "ok" THEN from
         ELSE The({IF to.k # "ok" THEN to ELSE POk([from |-> from.v, to |-> to.v], to.rest) :
                   to \in {parse_resulttype(from.rest)}}) :
         from \in {parse_resulttype(s)}})

parse_functype(s) ==
    The({IF header.k # "ok" THEN header
         ELSE IF header.v # 96 THEN PPanic("assertion failed: header == 0x60", header.rest)
         ELSE functype_body(header.rest) : header \in {parse_byte(s)}})

\* String::from_utf8 accepts: one-byte characters, and a leading byte
\* followed by its one, two or three continuation bytes.
RECURSIVE utf8(_)
utf8(b) ==
    LET cont(n) == Len(b) > n /\ \A i \in 2..(n + 1) : b[i] \in 128..191 IN
    IF b = <<>> THEN TRUE
    ELSE IF b[1] < 128 THEN utf8(Tail(b))
    ELSE IF b[1] \in 194..223 THEN cont(1) /\ utf8(SubSeq(b, 3, Len(b)))
    ELSE IF b[1] \in 224..239 THEN cont(2) /\ utf8(SubSeq(b, 4, Len(b)))
    ELSE IF b[1] \in 240..244 THEN cont(3) /\ utf8(SubSeq(b, 5, Len(b)))
    ELSE FALSE

\* `let size = self.parse_u32()?; self.read_bytes(size as usize)`.
sized_bytes(s) ==
    The({IF size.k # "ok" THEN size
         ELSE read_bytes(size.rest, u32_count(size.v, Len(size.rest) + 1)) :
         size \in {parse_u32(s)}})

parse_name(s) ==
    The({IF bytes.k = "ok" /\ ~utf8(bytes.v) THEN PPanic("invalid utf8", bytes.rest)
         ELSE bytes : bytes \in {sized_bytes(s)}})

\* A field that is one u32, kept under the name `field` beside `rec`.
with_u32(rec, field, s) ==
    The({IF x.k # "ok" THEN x ELSE POk([f \in {field} |-> x.v] @@ rec, x.rest) :
         x \in {parse_u32(s)}})

parse_import_desc(s) ==
    The({IF typ.k # "ok" THEN typ
         ELSE IF typ.v = 0 THEN with_u32([desc |-> "Func"], "idx", typ.rest)
         ELSE IF typ.v \in 1..3 THEN PPanic("not yet implemented", typ.rest)
         ELSE PPanic("invalid import desc", typ.rest) : typ \in {parse_byte(s)}})

\* A record of two parts read one after the other: `first` by a function
\* named p1 and `second` by a function named p2.
RECURSIVE parse_part(_, _)
parse_pair(p1, p2, s) ==
    The({IF a.k # "ok" THEN a
         ELSE The({IF b.k # "ok" THEN b ELSE POk([first |-> a.v, second |-> b.v], b.rest) :
                   b \in {parse_part(p2, a.rest)}}) :
         a \in {parse_part(p1, s)}})

\* One element of the import section: two names and a description.
parse_import(s) ==
    The({IF r.k # "ok" THEN r
         ELSE POk([module |-> r.v.first, nm |-> r.v.second.first, desc |-> r.v.second.second],
                  r.rest) : r \in {parse_pair("name", "name_desc", s)}})

parse_export_desc(s) ==
    The({IF r.k # "ok" THEN r
         ELSE IF r.v.first \in 0..3 THEN POk([desc |-> r.v.first, idx |-> r.v.second], r.rest)
         ELSE PPanic("invalid export desc", r.rest) : r \in {parse_pair("byte", "u32", s)}})

parse_export(s) ==
    The({IF r.k # "ok" THEN r ELSE POk([name |-> r.v.first, desc |-> r.v.second], r.rest) :
         r \in {parse_pair("name", "export_desc", s)}})

parse_local(s) ==
    The({IF r.k # "ok" THEN r ELSE POk([n |-> r.v.first, t |-> r.v.second], r.rest) :
         r \in {parse_pair("u32", "valtype", s)}})

parse_reftype(s) ==
    The({IF byte.k # "ok" THEN byte
         ELSE IF byte.v = 112 THEN POk("Funcref", byte.rest)
         ELSE IF byte.v = 111 THEN POk("Externref", byte.rest)
         ELSE PPanic("invalid reftype", byte.rest) : byte \in {parse_byte(s)}})

\* The two arms of parse_limits after the byte that selects them.
limits_min(s) ==
    The({IF min.k # "ok" THEN min ELSE POk([min |-> min.v, max |-> <<>>], min.rest) :
         min \in {parse_u32(s)}})
limits_min_max(s) ==
    The({IF r.k # "ok" THEN r ELSE POk([min |-> r.v.first, max |-> <<r.v.second>>], r.rest) :
         r \in {parse_pair("u32", "u32", s)}})

parse_limits(s) ==
    The({IF byte.k # "ok" THEN byte
         ELSE IF byte.v = 0 THEN limits_min(byte.rest)
         ELSE IF byte.v = 1 THEN limits_min_max(byte.rest)
         ELSE PPanic("invalid limits", byte.rest) : byte \in {parse_byte(s)}})

parse_tabletype(s) ==
    The({IF r.k # "ok" THEN r ELSE POk([reftype |-> r.v.first, limits |-> r.v.second], r.rest) :
         r \in {parse_pair("reftype", "limits", s)}})

parse_memtype(s) == parse_limits(s)

\* peek_byte: `fill_buf()?[0]`, an index out of bounds at the end of the stream.
peek_byte(s) ==
    IF s = <<>> THEN PPanic("index out of bounds", s) ELSE POk(Head(s), s)

\* The opcodes of parse_instr by the immediate they take.
PlainOps == {0, 1, 15, 69, 70, 71, 72, 73, 76, 100, 106, 107, 108, 120, 116,
             124, 126, 132, 133, 134, 136, 167, 173}
IndexOps == {12, 13, 16, 32, 33, 34}
MemArgOps == {40, 41, 45, 47, 54, 55, 58, 59}

parse_memarg(s) ==
    The({IF r.k # "ok" THEN r ELSE POk([align |-> r.v.first, offset |-> r.v.second], r.rest) :
         r \in {parse_pair("u32", "u32", s)}})

parse_f64(s) == read_bytes(s, 8)

parse_blocktype(s) ==
    The({IF typ.k # "ok" THEN typ
         ELSE IF typ.v = 64 THEN POk("Empty", Tail(s))
         ELSE IF typ.v \in {127, 126, 125, 124, 123, 112, 103} THEN parse_valtype(s)
         ELSE PPanic("not yet implemented", s) : typ \in {peek_byte(s)}})

RECURSIVE parse_instr(_)
RECURSIVE parse_expr_loop(_, _)
\* The `loop` of parse_expr with `is` the instructions pushed so far.
parse_expr_loop(s, is) ==
    IF s = <<>> THEN peek_byte(s)
    ELSE IF Head(s) = 11 THEN POk(is, Tail(s))
    ELSE The({IF i.k # "ok" THEN i ELSE parse_expr_loop(i.rest, Append(is, i.v)) :
              i \in {parse_instr(s)}})

parse_expr(s) == parse_expr_loop(s, <<>>)

parse_block(s) ==
    The({IF r.k # "ok" THEN r ELSE POk([bt |-> r.v.first, insts |-> r.v.second], r.rest) :
         r \in {parse_pair("blocktype", "expr", s)}})

\* parse_if after its block type: the loop breaks at 0x05 only, and a
\* todo!() follows the else block, so that no Ok is returned.
if_body(s) ==
    IF s = <<>> THEN peek_byte(s)
    ELSE IF Head(s) = 11 THEN PPanic("not yet implemented", s)
    ELSE IF Head(s) # 5 THEN PPanic("explicit panic", s)
    ELSE The({IF elseis.k # "ok" THEN elseis ELSE PPanic("not yet implemented", elseis.rest) :
              elseis \in {parse_block(s)}})

parse_if(s) ==
    The({IF bt.k # "ok" THEN bt ELSE if_body(bt.rest) : bt \in {parse_blocktype(s)}})

\* The immediate of the opcode `op`.
parse_immediate(op, s) ==
    IF op \in {2, 3}
    THEN The({IF b.k # "ok" THEN b ELSE POk(b.v.insts, b.rest) : b \in {parse_block(s)}})
    ELSE IF op \in IndexOps THEN parse_u32(s)
    ELSE IF op \in MemArgOps THEN parse_memarg(s)
    ELSE IF op = 65 THEN parse_i32(s)
    ELSE IF op = 66 THEN parse_i64(s)
    ELSE parse_f64(s)

parse_instr(s) ==
    The({IF byte.k # "ok" THEN byte
         ELSE IF byte.v \in PlainOps THEN POk([op |-> byte.v, a |-> <<>>], byte.rest)
         ELSE IF byte.v = 4 THEN parse_if(byte.rest)
         ELSE IF byte.v \in {2, 3, 65, 66, 68} \cup IndexOps \cup MemArgOps
         THEN The({IF a.k # "ok" THEN a ELSE POk([op |-> byte.v, a |-> a.v], a.rest) :
                   a \in {parse_immediate(byte.v, byte.rest)}})
         ELSE PPanic("unknown op", byte.rest) : byte \in {parse_byte(s)}})

\* The arms of parse_data after the kind.
data_of(kind, s) ==
    IF kind = 0
    THEN The({IF r.k # "ok" THEN r
              ELSE POk([init |-> r.v.second, mode |-> "Active", offset |-> r.v.first], r.rest) :
              r \in {parse_pair("expr", "sized_bytes", s)}})
    ELSE IF kind = 1
    THEN The({IF buf.k # "ok" THEN buf
              ELSE POk([init |-> buf.v, mode |-> "Passive", offset |-> <<>>], buf.rest) :
              buf \in {sized_bytes(s)}})
    ELSE IF kind = 2 THEN PPanic("not yet implemented: active data", s)
    ELSE PPanic("invalid data kind", s)

parse_data(s) ==
    The({IF kind.k # "ok" THEN kind ELSE data_of(u32_count(kind.v, 3), kind.rest) :
         kind \in {parse_u32(s)}})

parse_part(p, s) ==
    CASE p = "byte" -> parse_byte(s)
      [] p = "u32" -> parse_u32(s)
      [] p = "valtype" -> parse_valtype(s)
      [] p = "name" -> parse_name(s)
      [] p = "name_desc" -> parse_pair("name", "import_desc", s)
      [] p = "import_desc" -> parse_import_desc(s)
      [] p = "export_desc" -> parse_export_desc(s)
      [] p = "reftype" -> parse_reftype(s)
      [] p = "limits" -> parse_limits(s)
      [] p = "blocktype" -> parse_blocktype(s)
      [] p = "expr" -> parse_expr(s)
      [] p = "sized_bytes" -> sized_bytes(s)
      [] p = "locals" -> parse_counted("local", s)

parse_item(what, s) ==
    CASE what = "valtype" -> parse_valtype(s)
      [] what = "functype" -> parse_functype(s)
      [] what = "import" -> parse_import(s)
      [] what = "typeidx" -> parse_u32(s)
      [] what = "tabletype" -> parse_tabletype(s)
      [] what = "memtype" -> parse_memtype(s)
      [] what = "export" -> parse_export(s)
      [] what = "local" -> parse_local(s)
      [] what = "data" -> parse_data(s)

\* One function of the code section after its size: the locals and the body.
code_body(s) == parse_pair("locals", "expr", s)

\* The `for func in 0..elems` of parse_code, at function `func`.
RECURSIVE parse_code_loop(_, _, _, _, _)
parse_code_loop(s, func, elems, func_types, fs) ==
    IF func = elems THEN POk(fs, s)
    ELSE IF func >= Len(func_types) THEN PPanic("index out of bounds", s)
    ELSE The({IF size.k # "ok" THEN size
              ELSE The({IF r.k # "ok" THEN r
                        ELSE parse_code_loop(r.rest, func + 1, elems, func_types,
                                 Append(fs, [kind |-> "Local", typ |-> func_types[func + 1],
                                             locals |-> r.v.first, body |-> r.v.second])) :
                        r \in {code_body(size.rest)}}) :
              size \in {parse_u32(s)}})

parse_code(s, func_types) ==
    The({IF elems.k # "ok" THEN elems
         ELSE parse_code_loop(elems.rest, 0, u32_count(elems.v, Len(elems.rest) + 1),
                              func_types, <<>>) : elems \in {parse_u32(s)}})

\* SectionId::try_from accepts the ids 0..12.
parse_section_header(s) ==
    The({IF typ.k # "ok" THEN typ
         ELSE IF typ.v > 12 THEN PErr("unknown section id", typ.rest)
         ELSE The({IF size.k # "ok" THEN size
                   ELSE POk([id |-> typ.v, size |-> size.v], size.rest) :
                   size \in {parse_u32(typ.rest)}}) :
         typ \in {parse_byte(s)}})

parse_magic(s) ==
    The({IF magic.k # "ok" THEN magic
         ELSE IF magic.v # <<0, 97, 115, 109>> THEN PErr("invalid magic", magic.rest)
         ELSE magic : magic \in {read_bytes(s, 4)}})

parse_version(s) ==
    The({IF magic.k # "ok" THEN magic
         ELSE IF magic.v # <<1, 0, 0, 0>> THEN PErr("invalid version", magic.rest)
         ELSE magic : magic \in {read_bytes(s, 4)}})

\* Module::default().
EmptyModule ==
    [types |-> <<>>, imports |-> <<>>, funcs |-> <<>>, tables |-> <<>>, mems |-> <<>>,
     exports |-> <<>>, start |-> <<>>, datas |-> <<>>]

\* The imported functions the import section adds to module.funcs.
ExternalFuncs(imports) ==
    [i \in 1..Len(imports) |-> [kind |-> "External", typ |-> imports[i].desc.idx, import |-> i - 1]]

\* What the section `id` reads from the stream.
section_content(s, id, size, func_types) ==
    CASE id \in {0, 9} ->
           IF u32_count(size, Len(s) + 1) > Len(s)
           THEN PPanic("failed to read section content", <<>>)
           ELSE read_bytes(s, u32_count(size, Len(s) + 1))
      [] id = 1 -> parse_counted("functype", s)
      [] id = 2 -> parse_counted("import", s)
      [] id = 3 -> parse_counted("typeidx", s)
      [] id = 4 -> parse_counted("tabletype", s)
      [] id = 5 -> parse_counted("memtype", s)
      [] id \in {6, 12} -> PPanic("not yet implemented", s)
      [] id = 7 -> parse_counted("export", s)
      [] id = 8 -> parse_u32(s)
      [] id = 10 -> parse_code(s, func_types)
      [] id = 11 -> parse_counted("data", s)

\* The module after the section `id` has read v.
section_module(id, v, module) ==
    CASE id = 1 -> [module EXCEPT !.types = @ \o v]
      [] id = 2 -> [module EXCEPT !.imports = @ \o v, !.funcs = @ \o ExternalFuncs(v)]
      [] id = 4 -> [module EXCEPT !.tables = @ \o v]
      [] id = 5 -> [module EXCEPT !.mems = @ \o v]
      [] id = 7 -> [module EXCEPT !.exports = @ \o v]
      [] id = 8 -> [module EXCEPT !.start = <<v>>]
      [] id = 10 -> [module EXCEPT !.funcs = @ \o v]
      [] id = 11 -> [module EXCEPT !.datas = @ \o v]
      [] OTHER -> module

\* One arm of the `match typ` of parse_module: the module and the function
\* types after the section, as v.module and v.func_types.
parse_section(s, id, size, module, func_types) ==
    The({IF r.k # "ok" THEN r
         ELSE POk([module |-> section_module(id, r.v, module),
                   func_types |-> IF id = 3 THEN func_types \o r.v ELSE func_types], r.rest) :
         r \in {section_content(s, id, size, func_types)}})

\* The `while !self.stream.fill_buf()?.is_empty()` of parse_module.
RECURSIVE parse_sections(_, _, _)
parse_sections(s, module, func_types) ==
    IF s = <<>> THEN POk(module, s)
    ELSE The({IF h.k # "ok" THEN h
              ELSE The({IF r.k # "ok" THEN r
                        ELSE parse_sections(r.rest, r.v.module, r.v.func_types) :
                        r \in {parse_section(h.rest, h.v.id, h.v.size, module, func_types)}}) :
              h \in {parse_section_header(s)}})

parse_module(s) ==
    The({IF magic.k # "ok" THEN magic
         ELSE The({IF version.k # "ok" THEN version
                   ELSE parse_sections(version.rest, EmptyModule, <<>>) :
                   version \in {parse_version(magic.rest)}}) :
         magic \in {parse_magic(s)}})

\* ------------------------------------------------- binaries to decode
Preamble == <<0, 97, 115, 109, 1, 0, 0, 0>>
\* A type section with one type (vt) -> (), a function section with one
\* function of type 0 and a code section with one body.
TypeSection(vt) == <<1, 5, 1, 96, 1, vt, 0>>
FunctionSection == <<3, 2, 1, 0>>
CodeSection(locals, body) ==
    <<10, Len(locals) + Len(body) + 3, 1, Len(locals) + Len(body) + 1>>
        \o locals \o body \o <<11>>
NoLocals == <<0>>
OneLocalOf(vt) == <<1, 1, vt>>
Binary(vt, locals, body) ==
    Preamble \o TypeSection(vt) \o FunctionSection \o CodeSection(locals, body)

\* Bytes that are no opcode, no value type and no section id.
UnknownOpcodes == {39, 255}
UnknownValTypes == {0, 128}
UnknownSectionIds == {13, 255}
KnownBodies == {<<>>, <<1>>, <<32, 0, 65, 1, 106>>, <<2, 64, 0, 11>>, <<66, 127>>}

UnknownOpBinaries ==
    {Binary(127, NoLocals, b \o <<op>>) : b \in KnownBodies, op \in UnknownOpcodes}
BadPreambleBinaries ==
    {<<0, 97, 115, 110, 1, 0, 0, 0>>, <<1, 97, 115, 109, 1, 0, 0, 0>>,
     <<0, 97, 115, 109, 2, 0, 0, 0>>, <<0, 97, 115, 109, 1, 0, 0, 1>> \o TypeSection(127)}
BadSectionBinaries ==
    {Preamble \o pre \o <<id, 0>> :
        pre \in {<<>>, TypeSection(127)}, id \in UnknownSectionIds}
BadValTypeBinaries ==
    {Preamble \o TypeSection(vt) : vt \in UnknownValTypes}
        \cup {Binary(127, OneLocalOf(vt), <<1>>) : vt \in UnknownValTypes}
WellFormedBinaries ==
    {Preamble}
        \cup {Binary(vt, l, b) : vt \in {127, 126}, l \in {NoLocals, OneLocalOf(125)},
                                 b \in KnownBodies}
        \cup {Preamble \o <<0, 2, 1, 97>>, Preamble \o <<5, 3, 1, 0, 1>>,
              Preamble \o <<8, 1, 0>>,
              Preamble \o <<2, 7, 1, 1, 97, 1, 98, 0, 0>>,
              Preamble \o <<7, 5, 1, 1, 97, 0, 0>>,
              Preamble \o <<4, 4, 1, 112, 0, 1>>,
              Preamble \o <<11, 6, 1, 0, 65, 0, 11, 1, 7>>}
OtherBinaries ==
    {SubSeq(Preamble, 1, 3), Preamble \o <<1>>, Preamble \o <<6, 0>>,
     Preamble \o <<1, 2, 1, 95>>, Preamble \o <<10, 2, 1, 2, 0>>,
     Preamble \o TypeSection(127) \o FunctionSection \o <<10, 2, 1, 2, 0>>,
     Binary(127, NoLocals, <<4, 64, 1, 11>>)}
Binaries ==
    UnknownOpBinaries \cup BadPreambleBinaries \cup BadSectionBinaries
        \cup BadValTypeBinaries \cup WellFormedBinaries \cup OtherBinaries

\* --------------------------------------------- the decoder, applied
Returned_by(fn, r, arg) ==
    [fn |-> fn, k |-> r.k, v |-> r.v, err |-> r.err, arg |-> arg, rest |-> r.rest]

Decoded(fn, r) ==
    /\ result.fn = "none"
    /\ stream' = r.rest
    /\ result' = Returned_by(fn, r, stream)
    /\ UNCHANGED <<build, funcs, mems, tables, stack, lstack, ctl, ret, outcome, ev, inst,
                   input, tokens, frames>>

Parser_parse_u32 == Decoded("parse_u32", parse_u32(stream))
Parser_parse_i32 == Decoded("parse_i32", parse_i32(stream))
Parser_parse_i64 == Decoded("parse_i64", parse_i64(stream))
Parser_parse_module == Decoded("parse_module", parse_module(stream))

\* A Parser over a stream that nothing has read from.
InitDecode ==
    /\ build \in {"debug", "release"}
    /\ funcs = <<>> /\ mems = <<>> /\ tables = <<>>
    /\ stack = <<>> /\ lstack = <<>> /\ ctl = <<>>
    /\ ret = NoRet /\ outcome = Idle /\ ev = Ev0
    /\ inst = NoInst
    /\ stream \in LebStreams \cup Binaries
    /\ input = <<>> /\ tokens = <<>> /\ frames = <<>>
    /\ result = NoResult

NextDecode ==
    \/ Parser_parse_u32
    \/ Parser_parse_i32
    \/ Parser_parse_i64
    \/ Parser_parse_module

SpecDecode == InitDecode /\ [][NextDecode]_vars

\* ------------------------------------------------- decoder properties
\* C21: parse_u32 reports a decode error when the fifth byte of the encoding
\* still has its continuation bit set, so no value is returned for an
\* encoding of more than five bytes.
C21_OverlongU32IsError ==
    (/\ result.fn = "parse_u32"
     /\ Len(result.arg) >= 5
     /\ \A i \in 1..5 : result.arg[i] >= HIGHMASK)
        => result.k = "err"

\* C22: parse_i64 returns v for the canonical (shortest) signed LEB128
\* encoding of every 64-bit v: the sign bit 0x40 of the last byte is extended
\* through bit 63 whenever the encoding has fewer than ten bytes.
C22_CanonicalI64Decodes ==
    result.fn = "parse_i64" =>
        \A c \in I64Canon :
            c.enc = result.arg => (result.k = "ok" /\ result.v = c.v /\ result.rest = <<>>)

\* C23: a binary with an unknown opcode in a function body, a bad preamble,
\* an invalid section id or an invalid value-type byte makes parse_module
\* return an Err; it does not abort.
C23_MalformedIsDecodeError ==
    (/\ result.fn = "parse_module"
     /\ result.arg \in UnknownOpBinaries \cup BadPreambleBinaries
                        \cup BadSectionBinaries \cup BadValTypeBinaries)
        => result.k = "err"

\* ============================================================ text/token.rs
\* The lexer.  A text is a sequence of characters, each a one-character
\* string; Lexer.input is the text not yet consumed.  Every function of the
\* Lexer returns Ok(v) or Err(e) and the input it leaves.
Digits == <<"0", "1", "2", "3", "4", "5", "6", "7", "8", "9">>
Lower == <<"a", "b", "c", "d", "e", "f", "g", "h", "i", "j", "k", "l", "m",
           "n", "o", "p", "q", "r", "s", "t", "u", "v", "w", "x", "y", "z">>
Upper == <<"A", "B", "C", "D", "E", "F", "G", "H", "I", "J", "K", "L", "M",
           "N", "O", "P", "Q", "R", "S", "T", "U", "V", "W", "X", "Y", "Z">>
Punctuation == {"!", "\"", "#", "$", "%", "&", "'", "(", ")", "*", "+", ",", "-", ".", "/",
                ":", ";", "<", "=", ">", "?", "@", "[", "\\", "]", "^", "_", "{", "|",
                "}", "~"}
Range(q) == {q[i] : i \in 1..Len(q)}
IndexOf(q, c) == CHOOSE i \in 1..Len(q) : q[i] = c

\* char::is_whitespace, is_ascii_alphabetic, is_ascii_alphanumeric and
\* is_ascii_graphic on the characters above, and char::to_digit with -1
\* for None.
is_whitespace(c) == c \in {" ", "\n", "\t", "\r"}
is_ascii_alphabetic(c) == c \in Range(Lower) \cup Range(Upper)
is_ascii_alphanumeric(c) == is_ascii_alphabetic(c) \/ c \in Range(Digits)
is_ascii_graphic(c) == is_ascii_alphanumeric(c) \/ c \in Punctuation
to_digit(c, radix) ==
    LET d == IF c \in Range(Digits) THEN IndexOf(Digits, c) - 1
             ELSE IF c \in Range(Lower) THEN IndexOf(Lower, c) + 9
             ELSE IF c \in Range(Upper) THEN IndexOf(Upper, c) + 9
             ELSE radix
    IN  IF d < radix THEN d ELSE 0 - 1

\* The tokens.
Token(t, v) == [t |-> t, v |-> v]
LeftParen == Token("LeftParen", <<>>)
RightParen == Token("RightParen", <<>>)
Whitespace == Token("Whitespace", <<>>)
Equal == Token("Equal", <<>>)
Atom(a) == Token("Atom", a)
Nat_(n) == Token("Nat", n)

\* str::starts_with / strip_prefix, and the input after its first n characters.
starts_with(inp, p) == Len(inp) >= Len(p) /\ SubSeq(inp, 1, Len(p)) = p
skip(inp, n) == SubSeq(inp, n + 1, Len(inp))

expect_char(inp, c) ==
    IF inp = <<>> THEN PErr("UnexpectedEof", inp)
    ELSE IF Head(inp) = c THEN POk(<<>>, Tail(inp))
    ELSE PErr("UnexpectedNextChar", inp)

expect_string(inp, p) ==
    IF starts_with(inp, p) THEN POk(<<>>, skip(inp, Len(p)))
    ELSE PErr("FailedExpectedToken", inp)

\* v in place of the value of an Ok.
returning(r, v) == IF r.k = "ok" THEN POk(v, r.rest) ELSE r

lparen(inp) == returning(expect_char(inp, "("), LeftParen)
rparen(inp) == returning(expect_char(inp, ")"), RightParen)
equal(inp) == returning(expect_char(inp, "="), Equal)

\* The `loop` of Lexer::num (radix 10) and of Lexer::hexnum (radix 16): an
\* optional `_`, then accept_digit, which both of them call.  The texts lexed
\* here are too short for the usize to wrap.
RECURSIVE digits_loop(_, _, _)
digits_loop(inp, num, radix) ==
    LET i1 == IF inp # <<>> /\ Head(inp) = "_" THEN Tail(inp) ELSE inp IN
    IF i1 = <<>> \/ to_digit(Head(i1), 10) < 0 THEN POk(num, i1)
    ELSE digits_loop(Tail(i1), num * radix + to_digit(Head(i1), 10), radix)

num(inp) ==
    IF inp = <<>> \/ to_digit(Head(inp), 10) < 0 THEN PErr("FailedExpectedToken", inp)
    ELSE digits_loop(Tail(inp), to_digit(Head(inp), 10), 10)

hexnum(inp) ==
    IF inp = <<>> \/ to_digit(Head(inp), 16) < 0 THEN PErr("FailedExpectedToken", inp)
    ELSE digits_loop(Tail(inp), to_digit(Head(inp), 16), 16)

\* The `\u` arm of Lexer::string after the `u`: `{`, a hexnum and `}` are
\* taken, and a todo!() follows.
unicode_escape(inp) ==
    IF expect_char(inp, "{").k # "ok" THEN expect_char(inp, "{")
    ELSE The({IF n.k # "ok" THEN n
              ELSE IF expect_char(n.rest, "}").k # "ok" THEN expect_char(n.rest, "}")
              ELSE PPanic("not yet implemented: no idea what to do with hexnum", Tail(n.rest)) :
              n \in {hexnum(Tail(inp))}})

\* The `loop` of Lexer::string after the opening quote; an ordinary
\* character stands for the bytes of its encoding, a hex escape for its byte.
RECURSIVE string_loop(_, _)
string_loop(inp, text) ==
    IF inp = <<>> THEN PErr("UnexpectedEof", inp)
    ELSE IF Head(inp) = "\"" THEN POk(Token("Text", text), Tail(inp))
    ELSE IF Head(inp) # "\\" THEN string_loop(Tail(inp), Append(text, Head(inp)))
    ELSE LET e == Tail(inp)
             c == IF e = <<>> THEN "" ELSE Head(e)
             a == to_digit(c, 16)
             b == IF Len(e) < 2 THEN 0 - 1 ELSE to_digit(e[2], 16)
         IN  IF c \in {"n", "t", "\\", "'", "\""}
             THEN string_loop(Tail(e),
                      Append(text, IF c = "n" THEN "\n" ELSE IF c = "t" THEN "\t" ELSE c))
             ELSE IF c = "u" THEN unicode_escape(Tail(e))
             ELSE IF a < 0 THEN PErr("FailedExpectedToken", e)
             ELSE IF b < 0 THEN PErr("FailedExpectedToken", Tail(e))
             ELSE string_loop(skip(e, 2), Append(text, a * 16 + b))

string(inp) ==
    IF expect_char(inp, "\"").k # "ok" THEN expect_char(inp, "\"")
    ELSE string_loop(Tail(inp), <<>>)

\* str::trim_start.
RECURSIVE trim_start(_)
trim_start(inp) ==
    IF inp # <<>> /\ is_whitespace(Head(inp)) THEN trim_start(Tail(inp)) ELSE inp

whitespace(inp) ==
    IF inp = <<>> THEN PErr("UnexpectedEof", inp)
    ELSE IF ~is_whitespace(Head(inp)) THEN PErr("UnexpectedNextChar", inp)
    ELSE POk(Whitespace, trim_start(Tail(inp)))

\* accept_name_char and accept_atom_char take the next character if it is one
\* of these.
is_name_char(c) ==
    is_ascii_graphic(c) /\ c \notin {" ", "'", "\"", ",", ";", "(", ")", "[", "]", "{", "}"}
is_atom_char(c) == is_ascii_alphanumeric(c) \/ c \in {"_", ".", ":"}

\* The longest prefix of inp whose characters all satisfy the class `cls`.
RECURSIVE take_while(_, _)
take_while(inp, cls) ==
    IF inp # <<>> /\ (IF cls = "name" THEN is_name_char(Head(inp)) ELSE is_atom_char(Head(inp)))
    THEN <<Head(inp)>> \o take_while(Tail(inp), cls)
    ELSE <<>>

name(inp) ==
    IF expect_char(inp, "$").k # "ok" THEN expect_char(inp, "$")
    ELSE POk(Token("Name", take_while(Tail(inp), "name")),
             skip(inp, 1 + Len(take_while(Tail(inp), "name"))))

\* str::split_once('\n') of the input after `;;`.
linecomment(inp) ==
    IF ~starts_with(inp, <<";", ";">>) THEN PErr("FailedExpectedToken", inp)
    ELSE LET body == skip(inp, 2) IN
         IF \E i \in 1..Len(body) : body[i] = "\n"
         THEN LET i == CHOOSE i \in 1..Len(body) :
                            body[i] = "\n" /\ \A j \in 1..(i - 1) : body[j] # "\n"
              IN  POk(Token("Comment", SubSeq(body, 1, i - 1)), skip(body, i))
         ELSE POk(Token("Comment", body), <<>>)

atom(inp) ==
    IF inp = <<>> THEN PErr("UnexpectedEof", inp)
    ELSE IF ~is_ascii_alphabetic(Head(inp)) THEN PErr("FailedExpectedToken", inp)
    ELSE POk(Atom(<<Head(inp)>> \o take_while(Tail(inp), "atom")),
             skip(inp, 1 + Len(take_while(Tail(inp), "atom"))))

expect_nat(inp) ==
    IF starts_with(inp, <<"0", "x">>) THEN hexnum(skip(inp, 2)) ELSE num(inp)

nat(inp) == The({returning(n, Nat_(n.v)) : n \in {expect_nat(inp)}})

\* accept_sign: the sign taken ("" for None) and the input after it.
accept_sign(inp) ==
    IF inp # <<>> /\ Head(inp) \in {"+", "-"} THEN POk(Head(inp), Tail(inp)) ELSE POk("", inp)

int(inp) ==
    IF accept_sign(inp).v = "" THEN PErr("FailedExpectedToken", inp)
    ELSE The({returning(n, Token("Int", IF Head(inp) = "-" THEN 0 - n.v ELSE n.v)) :
              n \in {expect_nat(Tail(inp))}})

\* Lexer::float: the two branches differ in hexnum / num only.  The f64 is
\* kept as the decimal text format!("{}.{}", dec, frac) is parsed from.
float(inp) ==
    LET i1 == accept_sign(inp).rest
        hex == starts_with(i1, <<"0", "x">>)
    IN  The({IF dec.k # "ok" THEN dec
             ELSE IF expect_char(dec.rest, ".").k # "ok" THEN expect_char(dec.rest, ".")
             ELSE The({IF frac.k = "ok"
                       THEN POk(Token("Float", <<dec.v, frac.v>>), frac.rest)
                       ELSE POk(Token("Float", <<dec.v, 0>>), frac.rest) :
                       frac \in {IF hex THEN hexnum(Tail(dec.rest)) ELSE num(Tail(dec.rest))}}) :
             dec \in {IF hex THEN hexnum(skip(i1, 2)) ELSE num(i1)}})

float_inf(inp) ==
    returning(expect_string(accept_sign(inp).rest, <<"i", "n", "f">>),
              Token("Float", IF accept_sign(inp).v = "-" THEN "-inf" ELSE "inf"))

float_nan(inp) ==
    returning(expect_string(accept_sign(inp).rest, <<"n", "a", "n">>), Token("Float", "NaN"))

float_nan_hex(inp) ==
    The({IF p.k # "ok" THEN p ELSE returning(hexnum(p.rest), Token("Float", "NaN")) :
         p \in {expect_string(accept_sign(inp).rest, <<"n", "a", "n", ":", "0", "x">>)}})

\* The `loop` of Lexer::blockcomment after the opening `(;`.
RECURSIVE blockcomment_loop(_, _, _)
blockcomment_loop(inp, depth, comment) ==
    IF starts_with(inp, <<";", ")">>)
    THEN IF depth = 1 THEN POk(Token("Comment", comment), skip(inp, 2))
         ELSE blockcomment_loop(skip(inp, 2), depth - 1, comment \o <<";", ")">>)
    ELSE IF starts_with(inp, <<"(", ";">>)
    THEN blockcomment_loop(skip(inp, 2), depth + 1, comment \o <<"(", ";">>)
    ELSE IF inp = <<>> THEN PErr("UnexpectedEof", inp)
    ELSE blockcomment_loop(Tail(inp), depth, Append(comment, Head(inp)))

blockcomment(inp) ==
    IF ~starts_with(inp, <<"(", ";">>) THEN PErr("FailedExpectedToken", inp)
    ELSE blockcomment_loop(skip(inp, 2), 1, <<>>)

\* parse_longest: every function runs on a copy of the lexer, and the result
\* of the first of those that leave the least input is taken.
parse_longest(inp) ==
    LET conts == <<nat(inp), int(inp), float(inp), float_inf(inp), float_nan(inp),
                   float_nan_hex(inp)>>
        i == CHOOSE i \in 1..Len(conts) :
                 /\ \A j \in 1..Len(conts) : Len(conts[i].rest) <= Len(conts[j].rest)
                 /\ \A j \in 1..(i - 1) : Len(conts[j].rest) > Len(conts[i].rest)
    IN  conts[i]

\* Lexer::token: Ok(None) is the value <<>>, Ok(Some(t)) the value <<t>>.
token(inp) ==
    IF inp = <<>> THEN POk(<<>>, inp)
    ELSE The({returning(res, <<res.v>>) :
              res \in {IF starts_with(inp, <<"(", ";">>) THEN blockcomment(inp)
                       ELSE IF Head(inp) = "(" THEN lparen(inp)
                       ELSE IF Head(inp) = ")" THEN rparen(inp)
                       ELSE IF Head(inp) = "=" THEN equal(inp)
                       ELSE IF Head(inp) = "$" THEN name(inp)
                       ELSE IF Head(inp) = ";" THEN linecomment(inp)
                       ELSE IF Head(inp) = "\"" THEN string(inp)
                       ELSE IF is_whitespace(Head(inp)) THEN whitespace(inp)
                       ELSE IF is_ascii_alphabetic(Head(inp)) THEN atom(inp)
                       ELSE parse_longest(inp)}})

\* The `loop` of tokenize_script, and of tokenize_script_without_ws when
\* `without_ws` holds: that one `continue`s at a Comment and pushes every
\* other token.
RECURSIVE tokenize_loop(_, _, _)
tokenize_loop(inp, toks, without_ws) ==
    The({IF t.k # "ok" THEN t
         ELSE IF t.v = <<>> THEN POk(toks, t.rest)
         ELSE IF without_ws /\ t.v[1].t = "Comment" THEN tokenize_loop(t.rest, toks, without_ws)
         ELSE tokenize_loop(t.rest, Append(toks, t.v[1]), without_ws) :
         t \in {token(inp)}})

tokenize_script(inp) == tokenize_loop(inp, <<>>, FALSE)
tokenize_script_without_ws(inp) == tokenize_loop(inp, <<>>, TRUE)

\* ---------------------------------------------------- texts to lex
MaxText == 3
TextChars == {"0", "x", "1", "f", "A", "_", " ", ";", "(", ")"}
HexChars == {"0", "1", "9", "f", "A", "_"}
SampleTexts ==
    {<<";", ";", "x", "\n", "1">>, <<"(", ";", "x", ";", ")", "1">>,
     <<"(", ";", "(", ";", ";", ")", ";", ")">>, <<"x", " ", "\n", "x">>,
     <<"\"", "x", "\\", "n", "\\", "4", "1", "\"">>, <<"\"", "x">>, <<"$", "x", "1", ")">>,
     <<"=", "x">>, <<"-", "1", "9">>, <<"+", "0", "x", "f">>, <<"1", ".", "9">>,
     <<"0", "x", "1", ".">>, <<"-", "i", "n", "f">>, <<"+", "n", "a", "n">>,
     <<"-", "n", "a", "n", ":", "0", "x", "f">>, <<"\"", "\\", "u">>, <<".", "1">>,
     <<"\"", "\\", "u", "{", "4", "1", "}", "\"">>}
Texts ==
    SeqsUpTo(TextChars, MaxText)
        \cup {<<"0", "x">> \o t : t \in SeqsUpTo(HexChars, MaxText)}
        \cup SampleTexts

\* ------------------------------------------------ the lexer, applied
Lexed(fn, r) ==
    /\ result.fn = "none"
    /\ input' = r.rest
    /\ result' = Returned_by(fn, r, input)
    /\ UNCHANGED <<build, funcs, mems, tables, stack, lstack, ctl, ret, outcome, ev, inst,
                   stream, tokens, frames>>

Lexer_tokenize_script == Lexed("tokenize_script", tokenize_script(input))
Lexer_tokenize_script_without_ws ==
    Lexed("tokenize_script_without_ws", tokenize_script_without_ws(input))

\* `Lexer { input }` over a text nothing has been taken from.
InitLex ==
    /\ build \in {"debug", "release"}
    /\ funcs = <<>> /\ mems = <<>> /\ tables = <<>>
    /\ stack = <<>> /\ lstack = <<>> /\ ctl = <<>>
    /\ ret = NoRet /\ outcome = Idle /\ ev = Ev0
    /\ inst = NoInst
    /\ stream = <<>> /\ tokens = <<>> /\ frames = <<>>
    /\ input \in Texts
    /\ result = NoResult

NextLex ==
    \/ Lexer_tokenize_script
    \/ Lexer_tokenize_script_without_ws

SpecLex == InitLex /\ [][NextLex]_vars

\* --------------------------------------------------- lexer properties
\* C24: the token vector tokenize_script_without_ws returns contains no
\* Comment token and no Whitespace token.
C24_NoCommentNoWhitespace ==
    (result.fn = "tokenize_script_without_ws" /\ result.k = "ok")
        => \A i \in 1..Len(result.v) : result.v[i].t \notin {"Comment", "Whitespace"}

\* A hexadecimal natural literal: `0x`, a hex digit, and then hex digits
\* each with an optional `_` before it; and its value in base 16.
RECURSIVE hex_digits(_)
hex_digits(t) ==
    \/ t = <<>>
    \/ to_digit(Head(t), 16) >= 0 /\ hex_digits(Tail(t))
    \/ Head(t) = "_" /\ Len(t) >= 2 /\ to_digit(t[2], 16) >= 0 /\ hex_digits(skip(t, 2))
IsHexNat(t) ==
    /\ starts_with(t, <<"0", "x">>) /\ Len(t) >= 3
    /\ to_digit(t[3], 16) >= 0 /\ hex_digits(skip(t, 3))
RECURSIVE hex_value(_, _)
hex_value(t, acc) ==
    IF t = <<>> THEN acc
    ELSE IF Head(t) = "_" THEN hex_value(Tail(t), acc)
    ELSE hex_value(Tail(t), 16 * acc + to_digit(Head(t), 16))

\* C27: a `0x`-prefixed natural literal (digits 0-9, a-f, A-F, with optional
\* `_` separators) lexes to the single token Nat of its base-16 value, the
\* whole literal being consumed.
C27_HexNatIsOneToken ==
    (result.fn = "tokenize_script" /\ IsHexNat(result.arg))
        => (/\ result.k = "ok"
            /\ result.v = <<Nat_(hex_value(skip(result.arg, 2), 0))>>
            /\ result.rest = <<>>)

\* =========================================================== text/parser.rs
\* The text parser works on Parser.tokens, the tokens not yet taken.  An
\* atom is the sequence of its characters.
Chars_param == <<"p", "a", "r", "a", "m">>
Chars_result == <<"r", "e", "s", "u", "l", "t">>
Chars_func == <<"f", "u", "n", "c">>
Chars_i32 == <<"i", "3", "2">>
Chars_i64 == <<"i", "6", "4">>
Chars_f32 == <<"f", "3", "2">>
Chars_f64 == <<"f", "6", "4">>

\* The atoms accept_valtype asks for, in its order, with the ValType of each.
ValTypeAtoms ==
    <<[atom |-> Chars_i32, t |-> "I32"], [atom |-> Chars_i64, t |-> "I64"],
      [atom |-> Chars_f32, t |-> "F32"], [atom |-> Chars_f64, t |-> "F64"],
      [atom |-> <<"v", "1", "2", "8">>, t |-> "V128"],
      [atom |-> <<"f", "u", "n", "c", "r", "e", "f">>, t |-> "FuncRef"],
      [atom |-> <<"e", "x", "t", "e", "r", "n", "r", "e", "f">>, t |-> "ExternRef"],
      [atom |-> Chars_func, t |-> "FuncRef"],
      [atom |-> <<"e", "x", "t", "e", "r", "n">>, t |-> "ExternRef"]>>

\* peek_decl: the atom after a left paren, or an error; nothing is taken.
peek_decl(toks) ==
    IF toks = <<>> THEN PErr("UnexpectedEot", toks)
    ELSE IF Head(toks) # LeftParen THEN PErr("FailedExpectedToken", toks)
    ELSE IF Len(toks) < 2 THEN PErr("UnexpectedEot", toks)
    ELSE IF toks[2].t # "Atom" THEN PErr("FailedExpectedToken", toks)
    ELSE POk(toks[2].v, toks)

accept_lparen(toks) == toks # <<>> /\ Head(toks) = LeftParen
accept_rparen(toks) == toks # <<>> /\ Head(toks) = RightParen

\* accept_atom as it would be with the token compared to `atom`.
accept_atom_compared(toks, atm) == toks # <<>> /\ Head(toks) = Atom(atm)

\* accept_atom: the closure is `|t| matches!(t, Token::Atom(atom))`, whose
\* `atom` is a binding of the pattern and not the parameter, so that every
\* Atom token matches.  TRUE when the token is taken.
accept_atom(toks, atm) == toks # <<>> /\ Head(toks).t = "Atom"

expect_atom(toks, atm) ==
    IF accept_atom(toks, atm) THEN POk(<<>>, Tail(toks))
    ELSE PErr("FailedExpectedToken", toks)

\* accept_valtype: the first of its `if self.accept_atom(..)` that holds
\* returns; None is the value <<>>, Some(t) the value <<t>>.
accept_valtype(toks) ==
    IF \E i \in 1..Len(ValTypeAtoms) : accept_atom(toks, ValTypeAtoms[i].atom)
    THEN LET i == CHOOSE i \in 1..Len(ValTypeAtoms) :
                      /\ accept_atom(toks, ValTypeAtoms[i].atom)
                      /\ \A j \in 1..(i - 1) : ~accept_atom(toks, ValTypeAtoms[j].atom)
         IN  POk(<<ValTypeAtoms[i].t>>, Tail(toks))
    ELSE POk(<<>>, toks)

expect_lparen(toks) ==
    IF accept_lparen(toks) THEN POk(<<>>, Tail(toks)) ELSE PErr("ExpectedLparen", toks)
expect_rparen(toks) ==
    IF accept_rparen(toks) THEN POk(<<>>, Tail(toks)) ELSE PErr("ExpectedRparen", toks)

\* `while let Some(typ) = self.accept_valtype() { types.push(typ) }`.
RECURSIVE valtypes_loop(_, _)
valtypes_loop(toks, types) ==
    The({IF typ.v = <<>> THEN POk(types, toks)
         ELSE valtypes_loop(typ.rest, types \o typ.v) : typ \in {accept_valtype(toks)}})

\* accept_param (decl = Chars_param) and accept_result (decl = Chars_result),
\* which differ in the atom only: Ok(None) is the value <<>>, Ok(Some(types))
\* the value <<types>>.
accept_decl_types(toks, decl) ==
    IF peek_decl(toks).k # "ok" \/ peek_decl(toks).v # decl THEN POk(<<>>, toks)
    ELSE IF expect_lparen(toks).k # "ok" THEN expect_lparen(toks)
    ELSE IF expect_atom(Tail(toks), decl).k # "ok" THEN expect_atom(Tail(toks), decl)
    ELSE The({IF expect_rparen(types.rest).k # "ok" THEN expect_rparen(types.rest)
              ELSE POk(<<types.v>>, Tail(types.rest)) :
              types \in {valtypes_loop(skip(toks, 2), <<>>)}})

accept_param(toks) == accept_decl_types(toks, Chars_param)
accept_result(toks) == accept_decl_types(toks, Chars_result)

\* accept_params and accept_results: `while let Some(params) =
\* self.accept_param()? { types.extend(params) }`.
RECURSIVE accept_all(_, _, _)
accept_all(toks, decl, types) ==
    The({IF p.k # "ok" THEN p
         ELSE IF p.v = <<>> THEN POk(types, p.rest)
         ELSE accept_all(p.rest, decl, types \o p.v[1]) :
         p \in {accept_decl_types(toks, decl)}})

accept_params(toks) == accept_all(toks, Chars_param, <<>>)
accept_results(toks) == accept_all(toks, Chars_result, <<>>)

\* ParseError::context.
context(r, ctx) == IF r.k = "err" THEN PErr(<<"Context", ctx, r.err>>, r.rest) ELSE r

expect_functype(toks) ==
    IF expect_lparen(toks).k # "ok" THEN expect_lparen(toks)
    ELSE IF expect_atom(Tail(toks), Chars_func).k # "ok" THEN expect_atom(Tail(toks), Chars_func)
    ELSE The({IF params.k # "ok" THEN context(params, "Params")
              ELSE The({IF res.k # "ok" THEN context(res, "Result")
                        ELSE IF expect_rparen(res.rest).k # "ok" THEN expect_rparen(res.rest)
                        ELSE POk([from |-> params.v, to |-> res.v], Tail(res.rest)) :
                        res \in {accept_results(params.rest)}}) :
              params \in {accept_params(skip(toks, 2))}})

\* =============================================================== scripts.rs
Single(tok) == [tree |-> "Single", tok |-> tok, items |-> <<>>]
List(items) == [tree |-> "List", tok |-> <<>>, items |-> items]

RECURSIVE tree(_)
\* The LeftParen arm of `tree` after the paren, as it would be if the token
\* after the inner trees were not looked at.
RECURSIVE tree_list_unclosed(_, _)
tree_list_unclosed(toks, inner) ==
    The({IF t.k = "ok" THEN tree_list_unclosed(t.rest, Append(inner, t.v))
         ELSE POk(List(inner), IF t.rest = <<>> THEN <<>> ELSE Tail(t.rest)) :
         t \in {tree(toks)}})

\* The LeftParen arm of `tree` after the paren: `while let Ok(t) =
\* tree(tokens) { inner.push_back(t) }` (the failed call keeps what it took),
\* and then the next token has to be a RightParen.
RECURSIVE tree_list(_, _)
tree_list(toks, inner) ==
    The({IF t.k = "ok" THEN tree_list(t.rest, Append(inner, t.v))
         ELSE IF t.rest # <<>> /\ Head(t.rest) = RightParen
         THEN POk(List(inner), Tail(t.rest))
         ELSE PErr("UnexpectedToken", IF t.rest = <<>> THEN <<>> ELSE Tail(t.rest)) :
         t \in {tree(toks)}})

tree(toks) ==
    IF toks = <<>> THEN PErr("UnexpectedEof", toks)
    ELSE IF Head(toks) = RightParen THEN PErr("UnexpectedToken", toks)
    ELSE IF Head(toks) = LeftParen THEN tree_list(Tail(toks), <<>>)
    ELSE POk(Single(Head(toks)), Tail(toks))

\* The `while tokens.peek().is_some()` of tokens_to_tree.
RECURSIVE trees_loop(_, _)
trees_loop(toks, trees) ==
    IF toks = <<>> THEN POk(trees, toks)
    ELSE The({IF t.k # "ok" THEN t ELSE trees_loop(t.rest, Append(trees, t.v)) :
              t \in {tree(toks)}})

tokens_to_tree(toks) == trees_loop(toks, <<>>)

\* ------------------------------------------------- token sequences
MaxTokens == 5
TreeTokens == {LeftParen, RightParen, Atom(<<"x">>), Token("Name", <<"n">>)}
TypeAtoms == {Chars_i32, Chars_i64, Chars_f32, Chars_f64, <<"x">>}
\* `(param a b)`, `(param a) (result b)`, and those inside `(func ...)`.
Decl(decl, atoms) ==
    <<LeftParen, Atom(decl)>> \o [i \in 1..Len(atoms) |-> Atom(atoms[i])] \o <<RightParen>>
DeclTokens ==
    {Decl(d, a) : d \in {Chars_param, Chars_result}, a \in SeqsUpTo(TypeAtoms, 2)}
        \cup {Decl(Chars_param, <<a>>) \o Decl(Chars_result, <<b>>) :
                a \in TypeAtoms, b \in TypeAtoms}
FuncTypeTokens ==
    {<<LeftParen, Atom(Chars_func)>> \o d \o <<RightParen>> : d \in DeclTokens}
        \cup {<<LeftParen, Atom(Chars_func), RightParen>>,
              <<LeftParen, Atom(Chars_func)>>,
              <<LeftParen, Atom(Chars_func)>>
                  \o <<LeftParen, Atom(Chars_param), Token("Name", <<"x">>), Atom(Chars_i32),
                       RightParen, RightParen>>}
TokenSeqs ==
    SeqsUpTo(TreeTokens, MaxTokens) \cup DeclTokens \cup FuncTypeTokens
        \cup {<<Atom(a)>> : a \in TypeAtoms \cup {Chars_func, Chars_param}}
        \cup {<<Whitespace, LeftParen, Token("Comment", <<"x">>), RightParen, Equal>>}

\* ------------------------------------- the functions on tokens, applied
Parsed(fn, r, arg) ==
    /\ result.fn = "none"
    /\ tokens' = r.rest
    /\ result' = Returned_by(fn, r, arg)
    /\ UNCHANGED <<build, funcs, mems, tables, stack, lstack, ctl, ret, outcome, ev, inst,
                   stream, input, frames>>

Parser_expect_atom ==
    \E atm \in TypeAtoms \cup {Chars_func, Chars_param} :
        Parsed("expect_atom", expect_atom(tokens, atm), [tokens |-> tokens, atom |-> atm])
Parser_accept_valtype == Parsed("accept_valtype", accept_valtype(tokens), tokens)
Parser_accept_params == Parsed("accept_params", accept_params(tokens), tokens)
Parser_accept_results == Parsed("accept_results", accept_results(tokens), tokens)
Parser_expect_functype == Parsed("expect_functype", expect_functype(tokens), tokens)
scripts_tokens_to_tree == Parsed("tokens_to_tree", tokens_to_tree(tokens), tokens)

\* `Parser { tokens }`, or the Vec<Token> handed to tokens_to_tree.
InitTokens ==
    /\ build \in {"debug", "release"}
    /\ funcs = <<>> /\ mems = <<>> /\ tables = <<>>
    /\ stack = <<>> /\ lstack = <<>> /\ ctl = <<>>
    /\ ret = NoRet /\ outcome = Idle /\ ev = Ev0
    /\ inst = NoInst
    /\ stream = <<>> /\ input = <<>> /\ frames = <<>>
    /\ tokens \in TokenSeqs
    /\ result = NoResult

NextTokens ==
    \/ Parser_expect_atom
    \/ Parser_accept_valtype
    \/ Parser_accept_params
    \/ Parser_accept_results
    \/ Parser_expect_functype
    \/ scripts_tokens_to_tree

SpecTokens == InitTokens /\ [][NextTokens]_vars

\* ----------------------------------------------- text parser properties
\* The ValType the text format gives an atom, "" for an atom that names none.
ValTypeNamed(atm) ==
    IF \E i \in 1..Len(ValTypeAtoms) : ValTypeAtoms[i].atom = atm
    THEN ValTypeAtoms[CHOOSE i \in 1..Len(ValTypeAtoms) : ValTypeAtoms[i].atom = atm].t
    ELSE ""

\* C26: inside `(param ...)` and `(result ...)` the atoms i32, i64, f32 and
\* f64 become the ValTypes I32, I64, F32 and F64 and an atom that names no
\* value type is not accepted as one; expect_atom(x) accepts only an Atom
\* token equal to x.
C26_AtomsAreCompared ==
    /\ (result.fn \in {"accept_params", "accept_results"} /\ result.arg \in DeclTokens
            /\ result.arg[2].v = (IF result.fn = "accept_params" THEN Chars_param
                                  ELSE Chars_result))
        => LET decl == SubSeq(result.arg, 1,
                              CHOOSE i \in 1..Len(result.arg) :
                                  /\ result.arg[i] = RightParen
                                  /\ \A j \in 1..(i - 1) : result.arg[j] # RightParen)
               atoms == [i \in 1..(Len(decl) - 3) |-> decl[i + 2].v]
           IN  IF \A i \in 1..Len(atoms) : ValTypeNamed(atoms[i]) # ""
               THEN /\ result.k = "ok"
                    /\ result.v = [i \in 1..Len(atoms) |-> ValTypeNamed(atoms[i])]
               ELSE result.k = "err"
    /\ (result.fn = "accept_valtype" /\ result.arg # <<>>
            /\ (result.arg[1].t # "Atom" \/ ValTypeNamed(result.arg[1].v) = ""))
        => result.v = <<>>
    /\ (result.fn = "expect_atom" /\ result.k = "ok")
        => Head(result.arg.tokens) = Atom(result.arg.atom)

\* ------------------------------------------------------ tree properties
\* Every right paren closes an open left paren and every left paren is closed.
RECURSIVE depth_ok(_, _)
depth_ok(toks, depth) ==
    IF toks = <<>> THEN depth = 0
    ELSE IF Head(toks) = LeftParen THEN depth_ok(Tail(toks), depth + 1)
    ELSE IF Head(toks) = RightParen THEN depth > 0 /\ depth_ok(Tail(toks), depth - 1)
    ELSE depth_ok(Tail(toks), depth)
Balanced(toks) == depth_ok(toks, 0)

\* The tokens of a sequence of trees: a list is its forms between a left
\* and a right paren, and no paren is a form.
RECURSIVE tokens_of(_)
tokens_of(trees) ==
    IF trees = <<>> THEN <<>>
    ELSE (IF Head(trees).tree = "List"
          THEN <<LeftParen>> \o tokens_of(Head(trees).items) \o <<RightParen>>
          ELSE <<Head(trees).tok>>) \o tokens_of(Tail(trees))
RECURSIVE no_paren_form(_)
no_paren_form(trees) ==
    \A i \in 1..Len(trees) :
        IF trees[i].tree = "List" THEN no_paren_form(trees[i].items)
        ELSE trees[i].tok \notin {LeftParen, RightParen}

\* C28: tokens_to_tree returns Ok exactly when the parentheses of the token
\* sequence are balanced; then each Tree::List holds exactly the forms
\* between a left paren and its matching right paren, in order; otherwise a
\* ParseError is returned.
C28_TreeIffBalanced ==
    result.fn = "tokens_to_tree" =>
        /\ result.k = "ok" <=> Balanced(result.arg)
        /\ result.k = "ok" =>
              /\ tokens_of(result.v) = result.arg
              /\ no_paren_form(result.v)
              /\ result.rest = <<>>
        /\ result.k # "ok" => result.k = "err"

\* A nested list with forms before, inside and after the inner list came out.
C28_NestedListBuilt ==
    /\ result.fn = "tokens_to_tree" /\ result.k = "ok"
    /\ \E i \in 1..Len(result.v) :
          /\ result.v[i].tree = "List"
          /\ Len(result.v[i].items) >= 2
          /\ \E j \in 1..Len(result.v[i].items) : result.v[i].items[j].tree = "List"
          /\ \E j \in 1..Len(result.v[i].items) : result.v[i].items[j].tree = "Single"

\* ============================================================ text/sexpr.rs
\* tokens_to_sexpr step by step.  `frames` holds one activation per call of
\* tokens_to_sexpr that has not returned, the innermost last: at "entry" the
\* call is at `tokens.next()?`, at "loop" it is at the head of the `loop` of
\* the LeftParen arm with the `exprs` pushed so far.  `tokens` is what the
\* Peekable has left.
Sexpr(kind, v) == [sexpr |-> kind, v |-> v]
Entry == [pc |-> "entry", exprs |-> <<>>]
SexprTokens == {"Atom", "Name", "Text", "Nat", "Int", "Float"}

\* The frames and the result after the innermost call returns `opt` (<<>> for
\* None, <<e>> for Some(e)): the caller is at line 53 and pushes a Some, and
\* with no caller the value goes to the one that called tokens_to_sexpr.
Return(opt, toks) ==
    IF Len(frames) = 1
    THEN /\ frames' = <<>>
         /\ result' = Returned_by("tokens_to_sexpr", POk(opt, toks), <<>>)
    ELSE /\ frames' = [SubSeq(frames, 1, Len(frames) - 1) EXCEPT
                          ![Len(frames) - 1].exprs = @ \o opt]
         /\ UNCHANGED result

\* Lines 44-45 and the arms other than LeftParen's loop.
tokens_to_sexpr_entry ==
    /\ frames # <<>> /\ frames[Len(frames)].pc = "entry"
    /\ IF tokens = <<>> THEN Return(<<>>, tokens) /\ UNCHANGED tokens
       ELSE /\ tokens' = Tail(tokens)
            /\ IF Head(tokens) = LeftParen
               THEN /\ frames' = [frames EXCEPT ![Len(frames)].pc = "loop"]
                    /\ UNCHANGED result
               ELSE IF Head(tokens) = RightParen
               THEN /\ frames' = <<>>
                    /\ result' = Returned_by("tokens_to_sexpr",
                                     PPanic("should not encounter right paren", Tail(tokens)),
                                     <<>>)
               ELSE IF Head(tokens).t \in SexprTokens
               THEN Return(<<Sexpr(Head(tokens).t, Head(tokens).v)>>, Tail(tokens))
               ELSE IF Head(tokens) = Equal
               THEN Return(<<Sexpr("Equal", <<>>)>>, Tail(tokens))
               ELSE Return(<<>>, Tail(tokens))
    /\ UNCHANGED <<build, funcs, mems, tables, stack, lstack, ctl, ret, outcome, ev, inst,
                   stream, input>>

\* Lines 49-52: the next token is a RightParen.
tokens_to_sexpr_close ==
    /\ frames # <<>> /\ frames[Len(frames)].pc = "loop"
    /\ tokens # <<>> /\ Head(tokens) = RightParen
    /\ tokens' = Tail(tokens)
    /\ Return(<<Sexpr("List", frames[Len(frames)].exprs)>>, Tail(tokens))
    /\ UNCHANGED <<build, funcs, mems, tables, stack, lstack, ctl, ret, outcome, ev, inst,
                   stream, input>>

\* Line 53: anything else, the end of the tokens included, and the loop
\* calls tokens_to_sexpr.
tokens_to_sexpr_call ==
    /\ frames # <<>> /\ frames[Len(frames)].pc = "loop"
    /\ ~(tokens # <<>> /\ Head(tokens) = RightParen)
    /\ frames' = Append(frames, Entry)
    /\ UNCHANGED <<build, funcs, mems, tables, stack, lstack, ctl, ret, outcome, ev, inst,
                   stream, input, tokens, result>>

\* parse_module_to_sexpr's call, on the tokens it has.
InitSexpr ==
    /\ build \in {"debug", "release"}
    /\ funcs = <<>> /\ mems = <<>> /\ tables = <<>>
    /\ stack = <<>> /\ lstack = <<>> /\ ctl = <<>>
    /\ ret = NoRet /\ outcome = Idle /\ ev = Ev0
    /\ inst = NoInst
    /\ stream = <<>> /\ input = <<>>
    /\ tokens \in TokenSeqs
    /\ frames = <<Entry>>
    /\ result = NoResult

NextSexpr ==
    \/ tokens_to_sexpr_entry
    \/ tokens_to_sexpr_close
    \/ tokens_to_sexpr_call

\* The call runs on its own thread of control and is never suspended: a step
\* that can be taken is taken.
SpecSexpr == InitSexpr /\ [][NextSexpr]_vars /\ WF_vars(NextSexpr)

\* C30: tokens_to_sexpr terminates on every finite token sequence, a
\* sequence whose left paren is never closed included: the call made at the
\* start returns (or panics) in the end.
C30_SexprTerminates == <>(frames = <<>> /\ result.fn = "tokens_to_sexpr")

\* ------------------------------------------------------ a call's locals
\* The zero value of a value type, and the zero values of a list of
\* declarations, n per declaration of count n.
ZeroOf(t) == [t |-> t, v |-> 0]
RECURSIVE ZerosOf(_)
ZerosOf(decls) ==
    IF decls = <<>> THEN <<>>
    ELSE [i \in 1..Head(decls).n |-> ZeroOf(Head(decls).t)] \o ZerosOf(Tail(decls))

\* The last step was a `call` instruction of a local function with all of its
\* arguments on the stack.
CalledLocal ==
    /\ ev.kind = "exec" /\ ev.op = "Call"
    /\ ev.frame.code[ev.frame.pc].a < Len(funcs)
    /\ funcs[ev.frame.code[ev.frame.pc].a + 1].kind = "local"
    /\ Len(ev.pre) >= Len(funcs[ev.frame.code[ev.frame.pc].a + 1].from)

\* C25: a call of a local function with p parameters, with a1..ap pushed in
\* that order, removes the p arguments from the stack and enters a frame
\* whose locals are [a1, ..., ap] and then one zero value of the declared
\* kind per declared local; local index i is position i of that array.
C25_CallBuildsLocals ==
    /\ CalledLocal =>
          LET f == funcs[ev.frame.code[ev.frame.pc].a + 1] IN
          /\ ev.res = "ok"
          /\ stack = SubSeq(ev.pre, 1, Len(ev.pre) - Len(f.from))
          /\ Last(lstack) = LastN(ev.pre, Len(f.from)) \o ZerosOf(f.locals)
    /\ (ev.kind = "exec" /\ ev.op = "LocalGet"
            /\ ev.frame.code[ev.frame.pc].a < Len(ev.locals)) =>
          /\ ev.res = "ok"
          /\ Last(stack) = ev.locals[ev.frame.code[ev.frame.pc].a + 1]

\* The last step of instantiate ran a function import whose (module name,
\* field name) an earlier function import of the module names too; that one
\* was resolved, so the Externals instantiate was called with have the entry.
StepImport == inst.module.imports[inst.at]
SecondImportOfName ==
    /\ InstStep("imports")
    /\ StepImport.desc = "func"
    /\ \E j \in 1..(inst.at - 1) :
          /\ inst.module.imports[j].desc = "func"
          /\ inst.module.imports[j].module = StepImport.module
          /\ inst.module.imports[j].nm = StepImport.nm

\* C29: of two function imports that name the same (module name, field
\* name), each is resolved against that Externals entry: the second one's
\* iteration goes through as the first did, and the instance's function
\* address table has one address per import, in import order.
C29_SameNameImportedTwice ==
    SecondImportOfName =>
        /\ inst.pc \notin {"panic", "error"}
        /\ Len(inst.func_addrs) = inst.at
        /\ \A j \in 1..(inst.at - 1) : inst.func_addrs[j] < inst.func_addrs[j + 1]

====
